---- MODULE Spec2Model ----
(***************************************************************************)
(* Model of the client-side authentication session manager of DreamN:     *)
(* frontend/src/hooks/useKeycloak.jsx.                                     *)
(*                                                                         *)
(* One step of the model is one synchronous turn of the browser's event    *)
(* loop: a React mount / unmount / effect re-run, a call made by UI code,  *)
(* a timer firing, or the settlement of a promise of the identity provider *)
(* together with the promise continuations (microtasks) that run in the    *)
(* same turn.  The provider (keycloak-js) is the environment.              *)
(*                                                                         *)
(* The code's functions are operators from a world record (the value of    *)
(* every variable) to a world record, so that a handler that calls         *)
(* resetGlobalState and then notifyStateChange is one composed update.     *)
(***************************************************************************)
EXTENDS Naturals, Sequences, FiniteSets, TLC

VARIABLES
    keycloakSingleton,     \* useKeycloak.jsx:8   0 = null, else an instance id
    keycloakInitPromise,   \* useKeycloak.jsx:9   0 = null, else the promise created for that instance
    initializationState,   \* useKeycloak.jsx:10
    globalError,           \* useKeycloak.jsx:11
    stateSubscribers,      \* useKeycloak.jsx:14  a JS Set: insertion-ordered, no duplicates
    kcInstances,           \* the Keycloak objects created by `new Keycloak` (line 352)
    facades,               \* one record per useKeycloak() call site (hook instance)
    initAwaiters,          \* <<f, i>>: initKeycloak of f is suspended at line 406 on promise i
    initCallers,           \* <<f, i>>: initKeycloak of f returned promise i at line 325
    profilePending,        \* <<f, i>>: loadUserProfile in flight (line 234)
    refreshInFlight,       \* <<f, i>>: scheduled keycloakInstance.updateToken(30) in flight (line 278)
    timers,                \* <<f, i>>: armed setTimeout(updateToken, ...) of facade f bound to instance i
    logoutPending,         \* <<f, i>>: keycloak.logout in flight (line 475)
    notified,              \* the last event handed to notifyStateChange
    received,              \* per facade: the last event its subscriber was invoked with
    faulty,                \* subscribers that throw when invoked
    reentrant,             \* what the invocation of a subscriber sets off inside the notification:
                           \* the mount or the unmount of a component that uses the hook
    failures,              \* how many calls have failed so far: rejected by the provider, or thrown
                           \* at once by a facade method
    logoutIssued,          \* what the shared state was when keycloak.logout was last called (line 475)
    providerClaims,        \* the token claims the provider issues: at login per instance, and on refresh
    callsPending,          \* <<op, f, i>>: a provider call made by a facade method of f is in flight
    deliveries,            \* the subscriber invocations of this step, in order: <<facade, event type>>
    logoutFunction,        \* api.service.js: the facade whose logout was registered by setTokenGetter
                           \* (0: null)
    lastCall               \* what the last step was, when it was a facade method failing (whether it
                           \* caught the rejection, threw it on, or threw at once on misuse) or a
                           \* provider hook running

vars == <<keycloakSingleton, keycloakInitPromise, initializationState, globalError,
          stateSubscribers, kcInstances, facades, initAwaiters, initCallers,
          profilePending, refreshInFlight, timers, logoutPending, notified, received, faulty,
          reentrant,
          failures, logoutIssued, providerClaims, callsPending, deliveries, logoutFunction,
          lastCall>>

----------------------------------------------------------------------------
(* Bounds of the model *)

NumFacades == 2
MaxInst == 3
MaxTok == 1
MaxPending == 2
MaxFailures == 1

Facades == 1..NumFacades
Inst == 1..MaxInst

----------------------------------------------------------------------------
(* Values *)

NoError == "null"
SessionExpiredMsg == "Authentication session expired. Please login again."
InitFailedMsg == "Keycloak initialization failed"
InitErrorObj == "Error(Keycloak initialization failed)"
ProfileFailedMsg == "Failed to load user info"
RoleAttributesFailedMsg == "Failed to load role attributes"
UpdateProfileFailedMsg == "Update profile failed"
LogoutFailedMsg == "Logout failed"

SUPER_ROLE == "tsadmin"

EmptyMap == [m \in {} |-> TRUE]

\* token of instance i after v refreshes; 0 is null / undefined
Tok(i, v) == i * 10 + v

Range(s) == {s[k] : k \in 1..Len(s)}

\* The claims of the token that the provider issues when instance i logs in: the first
\* session is a custom-role holder, the next one a super-role holder, and so on.
LoginClaims(i) ==
    IF i % 2 = 1
    THEN [parsed |-> TRUE, realmRoles |-> <<"default-roles-dreamn", "offline_access">>,
          clientRoles |-> <<"editor">>,
          hasAttrs |-> TRUE, role_attributes |-> ("admin" :> "b_false" @@ "reports" :> "s_true")]
    ELSE [parsed |-> TRUE, realmRoles |-> <<"tsadmin">>, clientRoles |-> <<>>,
          hasAttrs |-> TRUE, role_attributes |-> ("admin" :> "b_false")]

\* The claims of a refreshed token: the admin module is gone
RefreshedClaims ==
    [parsed |-> TRUE, realmRoles |-> <<"editor">>, clientRoles |-> <<>>,
     hasAttrs |-> TRUE, role_attributes |-> ("reports" :> "n_1")]

NoClaims == [parsed |-> FALSE, realmRoles |-> <<>>, clientRoles |-> <<>>,
             hasAttrs |-> FALSE, role_attributes |-> EmptyMap]

NewInstance == [status |-> "unused", authenticated |-> FALSE, token |-> 0,
                refreshToken |-> 0, tokenParsed |-> NoClaims]

\* a hook instance before its first render
FreshFacade == [life |-> "fresh", isMounted |-> FALSE, keycloak |-> 0, authenticated |-> FALSE,
                loading |-> FALSE, error |-> NoError, userInfo |-> 0, token |-> 0,
                refreshToken |-> 0, roleAttributes |-> EmptyMap, permissions |-> EmptyMap,
                rendered |-> 0, updateTokenTimeoutRef |-> 0]


NoEvent == [type |-> "NONE", keycloak |-> 0, authenticated |-> FALSE, error |-> NoError,
            token |-> 0, refreshToken |-> 0]

Event(t) == [NoEvent EXCEPT !.type = t]

\* the facade methods that call the provider and hand its promise on
FacadeOps == {"updateToken", "updateProfile"}

\* the hooks the provider calls on its own (lines 355-373)
ProviderHooks == {"onTokenExpired", "onAuthRefreshSuccess", "onAuthRefreshError", "onAuthLogout"}

\* provider hook h ran in this step
Hook(h) == [op |-> h, f |-> 0, outcome |-> "hook"]

\* what the backend's error response carries: the statuses handleApiError tells apart, and
\* no response at all
ApiStatuses == {"401", "403", "429", "500", "network"}

\* no facade method failed and no provider hook ran in this step
NoCall == [op |-> "none", f |-> 0, outcome |-> "none"]

\* the provider call of method op of facade f was rejected; outcome is "caught" or "thrown"
Rejected(op, f, outcome) == [op |-> op, f |-> f, outcome |-> outcome]

\* no subscriber sets anything off
NoReentry == [by |-> 0, on |-> "NONE", op |-> "none", target |-> 0]

NotIssued == [issued |-> FALSE, phase |-> "idle", client |-> 0, resetDelivered |-> TRUE]

\* the value of every variable, as one record
World == [keycloakSingleton |-> keycloakSingleton, keycloakInitPromise |-> keycloakInitPromise,
          initializationState |-> initializationState, globalError |-> globalError,
          stateSubscribers |-> stateSubscribers, kcInstances |-> kcInstances,
          facades |-> facades, initAwaiters |-> initAwaiters, initCallers |-> initCallers,
          profilePending |-> profilePending,
          refreshInFlight |-> refreshInFlight, timers |-> timers,
          logoutPending |-> logoutPending, notified |-> notified, received |-> received,
          faulty |-> faulty, reentrant |-> reentrant, failures |-> failures,
          logoutIssued |-> logoutIssued,
          providerClaims |-> providerClaims, callsPending |-> callsPending,
          deliveries |-> <<>>, logoutFunction |-> logoutFunction, lastCall |-> NoCall]

\* provider calls in flight and armed timers
Pending(w) ==
    Cardinality({i \in Inst : w.kcInstances[i].status = "initializing"})
    + Cardinality(w.profilePending) + Cardinality(w.refreshInFlight)
    + Cardinality(w.timers) + Cardinality(w.logoutPending) + Cardinality(w.callsPending)

\* is the Keycloak object i still reachable from the program
Referenced(w, i) ==
    \/ w.keycloakSingleton = i
    \/ w.kcInstances[i].status = "initializing"
    \/ \E f \in Facades : w.facades[f].keycloak = i \/ w.facades[f].rendered = i
    \/ \E f \in Facades :
          \/ <<f, i>> \in w.profilePending \cup w.refreshInFlight \cup w.timers \cup w.logoutPending
          \/ \E op \in FacadeOps : <<op, f, i>> \in w.callsPending

\* a client object that was published and that nothing refers to any more is garbage: its
\* fields can no longer be read
collect(w) ==
    [w EXCEPT !.kcInstances =
        [i \in Inst |-> IF @[i].status = "initialized" /\ ~Referenced(w, i)
                        THEN [NewInstance EXCEPT !.status = "discarded"] ELSE @[i]],
              !.stateSubscribers = SelectSeq(@, LAMBDA x : x # 0)]

Commit(v) == \E u \in {v} : \E w \in {collect(u)} :
    /\ Pending(w) <= MaxPending
    /\ keycloakSingleton' = w.keycloakSingleton
    /\ keycloakInitPromise' = w.keycloakInitPromise
    /\ initializationState' = w.initializationState
    /\ globalError' = w.globalError
    /\ stateSubscribers' = w.stateSubscribers
    /\ kcInstances' = w.kcInstances
    /\ facades' = w.facades
    /\ initAwaiters' = w.initAwaiters
    /\ initCallers' = w.initCallers
    /\ profilePending' = w.profilePending
    /\ refreshInFlight' = w.refreshInFlight
    /\ timers' = w.timers
    /\ logoutPending' = w.logoutPending
    /\ notified' = w.notified
    /\ received' = w.received
    /\ faulty' = w.faulty
    /\ reentrant' = w.reentrant
    /\ failures' = w.failures
    /\ logoutIssued' = w.logoutIssued
    /\ providerClaims' = w.providerClaims
    /\ callsPending' = w.callsPending
    /\ deliveries' = w.deliveries
    /\ logoutFunction' = w.logoutFunction
    /\ lastCall' = w.lastCall

----------------------------------------------------------------------------
(* Broadcast channel *)

\* useState setters of an unmounted component are discarded by React
setState(st, upd) == IF st.life = "attached" THEN upd ELSE st

\* a handler whose INITIALIZED case leaves the loading flag to the caller of initKeycloak
handleStateChange_KeepsLoading(st, ev) ==
    IF ~st.isMounted THEN st
    ELSE CASE ev.type = "RESET" ->
                setState(st, [st EXCEPT !.keycloak = 0, !.authenticated = FALSE,
                                        !.loading = FALSE, !.error = NoError,
                                        !.userInfo = 0, !.token = 0, !.refreshToken = 0,
                                        !.roleAttributes = EmptyMap,
                                        !.permissions = EmptyMap])
           [] ev.type = "INITIALIZED" ->
                setState(st, [st EXCEPT !.keycloak = ev.keycloak,
                                        !.authenticated = ev.authenticated,
                                        !.error = NoError])
           [] ev.type = "ERROR" ->
                setState(st, [st EXCEPT !.error = ev.error, !.loading = FALSE])
           [] ev.type = "TOKEN_UPDATED" ->
                setState(st, [st EXCEPT !.token = ev.token,
                                        !.refreshToken = ev.refreshToken])
           [] OTHER -> st

handleStateChange(st, ev) ==
    IF ~st.isMounted THEN st
    ELSE CASE ev.type = "RESET" ->
                setState(st, [st EXCEPT !.keycloak = 0, !.authenticated = FALSE,
                                        !.loading = FALSE, !.error = NoError,
                                        !.userInfo = 0, !.token = 0, !.refreshToken = 0,
                                        !.roleAttributes = EmptyMap,
                                        !.permissions = EmptyMap])
           [] ev.type = "INITIALIZED" ->
                setState(st, [st EXCEPT !.keycloak = ev.keycloak,
                                        !.authenticated = ev.authenticated,
                                        !.loading = FALSE, !.error = NoError])
           [] ev.type = "ERROR" ->
                setState(st, [st EXCEPT !.error = ev.error, !.loading = FALSE])
           [] ev.type = "TOKEN_UPDATED" ->
                setState(st, [st EXCEPT !.token = ev.token,
                                        !.refreshToken = ev.refreshToken])
           [] OTHER -> st

\* the number of the notification that starts now, counted within the step
NextNotification(w) ==
    LET ids == {w.deliveries[k][3] : k \in 1..Len(w.deliveries)}
    IN  IF ids = {} THEN 1 ELSE 1 + CHOOSE n \in ids : \A m \in ids : m <= n

RECURSIVE mount(_, _)
RECURSIVE unmount(_, _)

\* what the invocation of subscriber f with event ev sets off before it returns
reenter(w, f, ev) ==
    IF w.reentrant.by # f \/ w.reentrant.on # ev.type THEN w
    ELSE LET g == w.reentrant.target
         IN  CASE w.reentrant.op = "remove" /\ w.facades[g].life = "attached" -> unmount(w, g)
               [] w.reentrant.op = "add" /\ w.facades[g].life = "fresh" -> mount(w, g)
               [] OTHER -> w

\* stateSubscribers.forEach (lines 31-37) from entry k on, for notification n.  A Set keeps
\* its entries in a list in insertion order: delete empties the entry (0) and add appends one,
\* and forEach walks the list by position, skipping the empty entries, up to the end the
\* list has when it gets there.  catches = the try/catch of lines 32-36
RECURSIVE notifyFrom(_, _, _, _, _)
notifyFrom(w, ev, k, n, catches) ==
    IF k > Len(w.stateSubscribers) THEN w
    ELSE IF w.stateSubscribers[k] = 0 THEN notifyFrom(w, ev, k + 1, n, catches)
    ELSE LET f == w.stateSubscribers[k]
             threw == f \in w.faulty
             w1 == [w EXCEPT !.received[f] = ev,
                             !.deliveries = Append(@, <<f, ev.type, n>>),
                             !.facades[f] = IF threw THEN @ ELSE handleStateChange(@, ev)]
         IN  \* the handler returns (w2) before forEach moves on
             CHOOSE r \in { IF threw /\ ~catches THEN w2
                            ELSE notifyFrom(w2, ev, k + 1, n, catches) :
                            w2 \in {reenter(w1, f, ev)} } : TRUE

\* a broadcast that invokes the latest subscriber first
notifyStateChange_LastFirst(w, ev) ==
    LET subs == w.stateSubscribers
        rev == [k \in DOMAIN subs |-> subs[Len(subs) + 1 - k]]
        w1 == notifyFrom([w EXCEPT !.notified = ev, !.stateSubscribers = rev],
                         ev, 1, NextNotification(w), TRUE)
    IN  [w1 EXCEPT !.stateSubscribers = subs]

notifyStateChange_NoCatch(w, ev) ==
    CHOOSE r \in { notifyFrom(w1, ev, 1, NextNotification(w1), FALSE) :
                   w1 \in {[w EXCEPT !.notified = ev]} } : TRUE

notifyStateChange(w, ev) ==
    CHOOSE r \in { notifyFrom(w1, ev, 1, NextNotification(w1), TRUE) :
                   w1 \in {[w EXCEPT !.notified = ev]} } : TRUE

resetGlobalState(w) ==
    notifyStateChange([w EXCEPT !.keycloakSingleton = 0, !.keycloakInitPromise = 0,
                                !.initializationState = "idle", !.globalError = NoError],
                      Event("RESET"))

----------------------------------------------------------------------------
(* Roles and permissions *)

\* the Keycloak object a reference denotes; null has no fields (optional chaining gives undefined)
InstOf(w, i) == IF i = 0 THEN NewInstance ELSE w.kcInstances[i]

getClientRoles(inst) ==
    IF ~inst.authenticated THEN <<>> ELSE inst.tokenParsed.clientRoles

getUserRoles(inst) ==
    IF ~inst.authenticated THEN <<>>
    ELSE inst.tokenParsed.realmRoles \o getClientRoles(inst)

hasSuperRole(inst) ==
    IF ~inst.authenticated THEN FALSE ELSE SUPER_ROLE \in Range(getUserRoles(inst))

\* an entry of a roles array that is not a string (a number)
NonStringRole == "<number>"

\* roleName.startsWith is not a function: isCustomRole throws a TypeError (line 146)
isCustomRoleThrows(roleName) == roleName = NonStringRole

\* the role names of the model that start with "default-roles-"
StartsWithDefaultRoles(roleName) == roleName \in {"default-roles-dreamn", "default-roles-"}

\* a classification that consults the default-role list before the privileged name
isCustomRole_ListFirst(roleName) ==
    LET defaultRoles == {"two-shoulder", "offline_access", "uma_authorization"}
    IN  IF StartsWithDefaultRoles(roleName) THEN FALSE
        ELSE IF roleName \in defaultRoles THEN FALSE
        ELSE TRUE

isCustomRole(roleName) ==
    LET defaultRoles == {"two-shoulder", "offline_access", "uma_authorization"}
    IN  IF StartsWithDefaultRoles(roleName) THEN FALSE
        ELSE IF roleName = "two-shoulder" THEN TRUE
        ELSE IF roleName \in defaultRoles THEN FALSE
        ELSE TRUE

\* JavaScript truthiness instead of the four listed values: "false" and "yes" grant too
Truthy_Loose(value) ==
    value \notin {"b_false", "n_0", "undefined", "s_empty"}

\* value === true || value === 'true' || value === '1' || value === 1
Truthy(value) ==
    value \in {"b_true", "s_true", "s_1", "n_1"}

\* one pass of the inner forEach (lines 193-200) over the module keys
mergeModules(perm, attrs) ==
    [m \in (DOMAIN perm) \cup (DOMAIN attrs) |->
        IF m \in DOMAIN attrs THEN Truthy(attrs[m]) ELSE perm[m]]

\* a merge whose first custom role is only a marker: the modules are written from the second
\* role on
mergeRoles_FromSecond(perm, roles, attrs) ==
    IF Len(roles) <= 1 THEN perm ELSE mergeModules(perm, attrs)

\* filteredRoles.forEach (lines 191-201)
RECURSIVE mergeRoles(_, _, _)
mergeRoles(perm, roles, attrs) ==
    IF roles = <<>> THEN perm
    ELSE mergeRoles(mergeModules(perm, attrs), Tail(roles), attrs)

roleAttributesFromToken(inst) ==
    IF inst.tokenParsed.parsed /\ inst.tokenParsed.hasAttrs
    THEN inst.tokenParsed.role_attributes ELSE EmptyMap

\* permission merge without the super-role branch
mergedPermissions_NoSuper(inst) ==
    LET attrs == roleAttributesFromToken(inst)
        userRoles == getUserRoles(inst)
        filteredRoles == SelectSeq(userRoles, isCustomRole)
        hasTwoShoulder == "two-shoulder" \in Range(userRoles)
    IN  IF hasTwoShoulder THEN [m \in DOMAIN attrs |-> TRUE]
        ELSE mergeRoles(EmptyMap, filteredRoles, attrs)

\* permission merge without the two-shoulder branch
mergedPermissions_NoPrivileged(inst) ==
    LET attrs == roleAttributesFromToken(inst)
        userRoles == getUserRoles(inst)
        filteredRoles == SelectSeq(userRoles, isCustomRole)
        hasSuper == hasSuperRole(inst)
    IN  IF hasSuper THEN [m \in DOMAIN attrs |-> TRUE]
        ELSE mergeRoles(EmptyMap, filteredRoles, attrs)

mergedPermissions(inst) ==
    LET attrs == roleAttributesFromToken(inst)
        userRoles == getUserRoles(inst)
        filteredRoles == SelectSeq(userRoles, isCustomRole)
        hasSuper == hasSuperRole(inst)
        hasTwoShoulder == "two-shoulder" \in Range(userRoles)
    IN  IF hasSuper THEN [m \in DOMAIN attrs |-> TRUE]
        ELSE IF hasTwoShoulder THEN [m \in DOMAIN attrs |-> TRUE]
        ELSE mergeRoles(EmptyMap, filteredRoles, attrs)

roleAttributesMap(inst) ==
    [r \in Range(SelectSeq(getUserRoles(inst), isCustomRole)) |-> roleAttributesFromToken(inst)]

\* userRoles.filter(isCustomRole) (line 162) throws inside the try block
loadRoleAttributesThrows(inst) ==
    \E k \in 1..Len(getUserRoles(inst)) : isCustomRoleThrows(getUserRoles(inst)[k])

\* lines 153-227; the function has no await, so it runs to completion when called
loadRoleAttributes(w, f, i) ==
    IF ~InstOf(w, i).authenticated \/ ~w.facades[f].isMounted THEN w
    ELSE IF loadRoleAttributesThrows(InstOf(w, i))
    THEN [w EXCEPT !.facades[f] =
            IF @.isMounted THEN setState(@, [@ EXCEPT !.error = RoleAttributesFailedMsg])
            ELSE @]
    ELSE [w EXCEPT !.facades[f] =
            IF @.isMounted
            THEN setState(@, [@ EXCEPT !.roleAttributes = roleAttributesMap(InstOf(w, i)),
                                       !.permissions = mergedPermissions(InstOf(w, i))])
            ELSE @]

\* lines 230-234: up to the call of the provider's loadUserProfile
loadUserInfo(w, f, i) ==
    IF ~InstOf(w, i).authenticated \/ ~w.facades[f].isMounted THEN w
    ELSE [w EXCEPT !.profilePending = @ \cup {<<f, i>>}]

\* a permission check that looks at the permission map only
hasModulePermission_NoSuper(w, f, moduleName) ==
    LET st == w.facades[f]
    IN  IF ~st.authenticated \/ moduleName = "" THEN FALSE
        ELSE moduleName \in DOMAIN st.permissions /\ st.permissions[moduleName] = TRUE

\* hasModulePermission of facade record st (lines 432-445); the closure's keycloak is
\* the one of the last render
hasModulePermission(w, f, moduleName) ==
    LET st == w.facades[f]
    IN  IF ~st.authenticated \/ moduleName = "" THEN FALSE
        ELSE IF hasSuperRole(InstOf(w, st.rendered)) THEN TRUE
        ELSE moduleName \in DOMAIN st.permissions /\ st.permissions[moduleName] = TRUE

\* getToken (lines 561-563)
getToken(w, f) == InstOf(w, w.facades[f].rendered).token

----------------------------------------------------------------------------
(* Token refresh scheduler *)

\* clearTimeout(updateTokenTimeoutRef.current); updateTokenTimeoutRef.current = null
clearRefreshTimeout(w, f) ==
    IF w.facades[f].updateTokenTimeoutRef # 0
    THEN [w EXCEPT !.timers = @ \ {<<f, w.facades[f].updateTokenTimeoutRef>>},
                   !.facades[f].updateTokenTimeoutRef = 0]
    ELSE w

\* the inner updateToken (lines 274-278) up to the provider call
scheduledUpdateToken(w, f, i) ==
    IF ~w.facades[f].isMounted \/ i = 0 THEN w
    ELSE [w EXCEPT !.refreshInFlight = @ \cup {<<f, i>>}]

setupTokenRefresh(w, f, i) ==
    IF i = 0 \/ ~w.facades[f].isMounted THEN w
    ELSE scheduledUpdateToken(clearRefreshTimeout(w, f), f, i)

----------------------------------------------------------------------------
(* Initialization *)

UnusedInst(w) == {i \in Inst : w.kcInstances[i].status = "unused"}

NextInst(w) == CHOOSE i \in UnusedInst(w) : \A j \in UnusedInst(w) : i <= j

\* lines 347-404, synchronous part: new Keycloak, hooks, keycloakInstance.init(...)
startInit(w) ==
    IF w.keycloakInitPromise = 0
    THEN [w EXCEPT !.kcInstances[NextInst(w)].status = "initializing",
                   !.keycloakInitPromise = NextInst(w)]
    ELSE w

\* would a call of initKeycloak construct a Keycloak object
InitCreates(w) ==
    /\ w.initializationState # "initializing"
    /\ ~(w.initializationState = "initialized" /\ w.keycloakSingleton # 0)
    /\ (w.initializationState = "failed" \/ w.keycloakInitPromise = 0)

\* initKeycloak without the checks of lines 324-326 and 347: a caller that arrives during
\* an initialization starts one of its own
initKeycloak_NoPendingCheck(w, f) ==
    IF w.initializationState = "initialized" /\ w.keycloakSingleton # 0
    THEN w
    ELSE IF UnusedInst(w) = {}
    THEN [w EXCEPT !.initCallers = @ \cup {<<f, w.keycloakInitPromise>>}]
    ELSE LET w1 == IF w.initializationState = "failed" THEN resetGlobalState(w) ELSE w
             w2 == notifyStateChange([w1 EXCEPT !.initializationState = "initializing",
                                                !.globalError = NoError],
                                     Event("LOADING"))
             w3 == startInit([w2 EXCEPT !.keycloakInitPromise = 0])
         IN  [w3 EXCEPT !.initAwaiters = @ \cup {<<f, w3.keycloakInitPromise>>}]

\* initKeycloak without lines 332-334: after a failure the shared state is not recycled
initKeycloak_NoRecycle(w, f) ==
    IF w.initializationState = "initializing"
    THEN [w EXCEPT !.initCallers = @ \cup {<<f, w.keycloakInitPromise>>}]
    ELSE IF w.initializationState = "initialized" /\ w.keycloakSingleton # 0
    THEN w
    ELSE LET w2 == notifyStateChange([w EXCEPT !.initializationState = "initializing",
                                               !.globalError = NoError],
                                     Event("LOADING"))
             w3 == startInit(w2)
         IN  [w3 EXCEPT !.initAwaiters = @ \cup {<<f, w3.keycloakInitPromise>>}]

\* initKeycloak of facade f (lines 322-406), up to its first suspension or return
initKeycloak(w, f) ==
    IF w.initializationState = "initializing"
    THEN [w EXCEPT !.initCallers = @ \cup {<<f, w.keycloakInitPromise>>}]
    ELSE IF w.initializationState = "initialized" /\ w.keycloakSingleton # 0
    THEN w
    ELSE LET w1 == IF w.initializationState = "failed" THEN resetGlobalState(w) ELSE w
             w2 == notifyStateChange([w1 EXCEPT !.initializationState = "initializing",
                                                !.globalError = NoError],
                                     Event("LOADING"))
             w3 == startInit(w2)
         IN  [w3 EXCEPT !.initAwaiters = @ \cup {<<f, w3.keycloakInitPromise>>}]

\* lines 422-426, after Promise.all has settled
afterUserData(w, f, i) ==
    LET w1 == setupTokenRefresh(w, f, i)
    IN  [w1 EXCEPT !.facades[f] = setState(@, [@ EXCEPT !.loading = FALSE])]

\* lines 406-427: the continuation of the caller that awaits promise i, once it resolved
initContinuation(w, f, i) ==
    LET inst == w.kcInstances[i]
    IN  IF ~w.facades[f].isMounted THEN w
        ELSE LET w1 == [w EXCEPT !.facades[f] =
                          setState(@, [@ EXCEPT !.keycloak = i,
                                                !.authenticated = inst.authenticated])]
             IN  IF inst.authenticated
                 THEN LET w2 == [w1 EXCEPT !.facades[f] =
                                   setState(@, [@ EXCEPT !.token = inst.token,
                                                         !.refreshToken = inst.refreshToken])]
                          w3 == loadRoleAttributes(loadUserInfo(w2, f, i), f, i)
                      IN  IF <<f, i>> \in w3.profilePending THEN w3
                          ELSE afterUserData(w3, f, i)
                 ELSE [w1 EXCEPT !.facades[f] = setState(@, [@ EXCEPT !.loading = FALSE])]

\* the continuations of every caller suspended on promise i, in facade order
RECURSIVE resumeAwaiters(_, _, _)
resumeAwaiters(w, fs, i) ==
    IF fs = {} THEN w
    ELSE LET f == CHOOSE x \in fs : \A y \in fs : x <= y
         IN  resumeAwaiters(initContinuation(w, f, i), fs \ {f}, i)

\* the callers that were handed promise i itself (line 325) see it settle
settleCallers(w, i) ==
    [w EXCEPT !.initCallers = {p \in @ : p[2] # i}]

AwaitersOf(w, i) == {f \in Facades : <<f, i>> \in w.initAwaiters}

\* lines 375-388 and what follows in the same turn
initResolved(w, i) ==
    LET inst == w.kcInstances[i]
        w1 == notifyStateChange([w EXCEPT !.keycloakSingleton = i,
                                          !.initializationState = "initialized"],
                                [Event("INITIALIZED") EXCEPT !.keycloak = i,
                                    !.authenticated = inst.authenticated])
        w2 == settleCallers(w1, i)
    IN  resumeAwaiters([w2 EXCEPT !.initAwaiters = {p \in @ : p[2] # i}], AwaitersOf(w, i), i)

\* lines 390-402: the catch block; the awaiting callers are rejected
initRejected(w, i) ==
    LET w1 == notifyStateChange([w EXCEPT !.initializationState = "failed",
                                          !.globalError = InitErrorObj],
                                [Event("ERROR") EXCEPT !.error = InitFailedMsg])
        w2 == settleCallers(w1, i)
    IN  [w2 EXCEPT !.initAwaiters = {p \in @ : p[2] # i}]

----------------------------------------------------------------------------
(* Attach, re-render, detach *)

\* a mount effect that also starts the scheduler when it adopts the singleton
mountEffect_StartsScheduler(w, f) ==
    LET w1 == [w EXCEPT !.facades[f].isMounted = TRUE]
    IN  IF w1.initializationState \in {"idle", "failed"} THEN initKeycloak(w1, f)
        ELSE IF w1.initializationState = "initialized" /\ w1.keycloakSingleton # 0
        THEN LET k == w1.kcInstances[w1.keycloakSingleton]
                 w2 == [w1 EXCEPT !.facades[f] =
                          setState(@, [@ EXCEPT !.keycloak = w1.keycloakSingleton,
                                                !.authenticated = k.authenticated,
                                                !.token = k.token,
                                                !.refreshToken = k.refreshToken,
                                                !.loading = FALSE])]
             IN  setupTokenRefresh(w2, f, w1.keycloakSingleton)
        ELSE w1

\* the body of the mount effect (lines 573-587)
mountEffect(w, f) ==
    LET w1 == [w EXCEPT !.facades[f].isMounted = TRUE]
    IN  IF w1.initializationState \in {"idle", "failed"} THEN initKeycloak(w1, f)
        ELSE IF w1.initializationState = "initialized" /\ w1.keycloakSingleton # 0
        THEN LET k == w1.kcInstances[w1.keycloakSingleton]
             IN  [w1 EXCEPT !.facades[f] =
                    setState(@, [@ EXCEPT !.keycloak = w1.keycloakSingleton,
                                          !.authenticated = k.authenticated,
                                          !.token = k.token,
                                          !.refreshToken = k.refreshToken,
                                          !.loading = FALSE])]
        ELSE w1

\* the cleanup of the mount effect (lines 589-596)
mountCleanup(w, f) ==
    clearRefreshTimeout([w EXCEPT !.facades[f].isMounted = FALSE], f)

\* initialisers that ignore the singleton: the first render shows a signed-out facade
useStateInit_Defaults(w) ==
    [FreshFacade EXCEPT !.life = "attached", !.isMounted = TRUE]

\* the useState initialisers (lines 60-71), evaluated at the first render
useStateInit(w) ==
    LET k == InstOf(w, w.keycloakSingleton)
    IN  [FreshFacade EXCEPT !.life = "attached", !.isMounted = TRUE,
                            !.keycloak = w.keycloakSingleton,
                            !.authenticated = k.authenticated,
                            !.loading = (w.initializationState = "initializing"),
                            !.error = w.globalError,
                            !.token = k.token, !.refreshToken = k.refreshToken,
                            !.rendered = w.keycloakSingleton]

\* lines 107 and 109-112
subscribe(w, f) ==
    IF f \in Range(w.stateSubscribers) THEN w
    ELSE [w EXCEPT !.stateSubscribers = Append(@, f)]

\* a cleanup that empties the subscriber list
unsubscribe_All(w, f) ==
    [w EXCEPT !.stateSubscribers = <<>>,
              !.facades[f].isMounted = FALSE]

\* a subscriber list that is an array, the cleanup splicing the handler out of it
unsubscribe_Splice(w, f) ==
    [w EXCEPT !.stateSubscribers = SelectSeq(@, LAMBDA x : x # f),
              !.facades[f].isMounted = FALSE]

\* lines 109-112: stateSubscribers.delete empties the entry of the handler
unsubscribe(w, f) ==
    [w EXCEPT !.stateSubscribers = [k \in DOMAIN @ |-> IF @[k] = f THEN 0 ELSE @[k]],
              !.facades[f].isMounted = FALSE]

\* a call of initKeycloak needs an instance id of the model when it constructs a Keycloak
HasRoom(w) == (w.initializationState \in {"idle", "failed"}) => UnusedInst(w) # {}

\* React has a re-render of some facade scheduled.  The scheduler's task was queued in the
\* turn that set the state, so it runs before the provider's next answer, the next timer
\* and the next call of UI code.
RenderDue == \E f \in Facades : /\ facades[f].life = "attached"
                                 /\ facades[f].keycloak # facades[f].rendered

\* a component calling useKeycloak() mounts: first render, then both effects
mount(w, f) ==
    IF ~HasRoom(w) THEN w
    ELSE mountEffect(subscribe([w EXCEPT !.facades[f] = useStateInit(w)], f), f)

\* the component unmounts: both cleanups
unmount(w, f) ==
    LET w1 == mountCleanup(unsubscribe(w, f), f)
    IN  [w1 EXCEPT !.facades[f] = [FreshFacade EXCEPT !.life = "detached"],
                   !.received[f] = NoEvent]

Attach(f) ==
    /\ ~RenderDue
    /\ facades[f].life = "fresh"
    /\ HasRoom(World)
    /\ Commit(mount(World, f))

\* React re-renders f with a changed keycloak state: every useCallback that depends on
\* keycloak is recreated, so the effect with dependency [initKeycloak] is cleaned up and re-run
Render(f) ==
    /\ facades[f].life = "attached"
    /\ facades[f].keycloak # facades[f].rendered
    /\ HasRoom(World)
    /\ LET w1 == [World EXCEPT !.facades[f].rendered = facades[f].keycloak]
       IN  Commit(mountEffect(mountCleanup(w1, f), f))

Detach(f) ==
    /\ ~RenderDue
    /\ facades[f].life = "attached"
    /\ Commit(unmount(World, f))

\* UI code calls the initKeycloak the hook returns
InitKeycloakCall(f) ==
    /\ ~RenderDue
    /\ facades[f].life = "attached"
    /\ InitCreates(World) => UnusedInst(World) # {}
    /\ <<f, keycloakInitPromise>> \notin initCallers
    /\ Commit(initKeycloak(World, f))

----------------------------------------------------------------------------
(* The provider answers *)

ProviderInitResolves(i, auth) ==
    /\ ~RenderDue
    /\ kcInstances[i].status = "initializing"
    /\ LET w1 == [World EXCEPT !.kcInstances[i] =
                    [@ EXCEPT !.status = "initialized", !.authenticated = auth,
                              !.token = IF auth THEN Tok(i, 0) ELSE 0,
                              !.refreshToken = IF auth THEN Tok(i, 0) ELSE 0,
                              !.tokenParsed = IF auth THEN providerClaims.login[i]
                                              ELSE NoClaims]]
       IN  Commit(initResolved(w1, i))

ProviderInitRejects(i) ==
    /\ ~RenderDue
    /\ failures < MaxFailures
    /\ kcInstances[i].status = "initializing"
    /\ Commit(initRejected([World EXCEPT !.kcInstances[i].status = "failed",
                                          !.failures = @ + 1], i))

\* loadUserProfile resolves: lines 235-252, then lines 422-426
ProfileResolves(f, i) ==
    /\ ~RenderDue
    /\ <<f, i>> \in profilePending
    /\ LET w1 == [World EXCEPT !.profilePending = @ \ {<<f, i>>},
                               !.facades[f] = IF @.isMounted
                                              THEN setState(@, [@ EXCEPT !.userInfo = i])
                                              ELSE @]
       IN  Commit(afterUserData(w1, f, i))

\* a profile failure that ends the session
loadUserInfoRejected_Fatal(w, f, i) ==
    resetGlobalState([w EXCEPT !.facades[f] =
                        IF @.isMounted
                        THEN setState(@, [@ EXCEPT !.error = ProfileFailedMsg])
                        ELSE @])

\* loadUserProfile rejects: the catch of loadUserInfo (lines 253-261) returns null, and
\* initKeycloak goes on after Promise.all (lines 422-426)
loadUserInfoRejected(w, f, i) ==
    afterUserData([w EXCEPT !.facades[f] =
                     IF @.isMounted
                     THEN setState(@, [@ EXCEPT !.error = ProfileFailedMsg])
                     ELSE @],
                  f, i)

ProfileRejects(f, i) ==
    /\ ~RenderDue
    /\ failures < MaxFailures
    /\ <<f, i>> \in profilePending
    /\ Commit(loadUserInfoRejected([World EXCEPT !.profilePending = @ \ {<<f, i>>},
                                                 !.failures = @ + 1], f, i))

\* a scheduler that arms the next timer only after a refresh that happened
refreshResolved_RearmIfRefreshed(w, f, i, refreshed) ==
    LET inst == w.kcInstances[i]
    IN  IF refreshed /\ w.facades[f].isMounted
        THEN LET wa == [w EXCEPT !.facades[f] =
                          setState(@, [@ EXCEPT !.token = inst.token,
                                                !.refreshToken = inst.refreshToken])]
                 wb == notifyStateChange(wa, [Event("TOKEN_UPDATED") EXCEPT
                                                !.token = inst.token,
                                                !.refreshToken = inst.refreshToken])
                 wc == loadRoleAttributes(wb, f, i)
             IN  [wc EXCEPT !.timers = @ \cup {<<f, i>>},
                            !.facades[f].updateTokenTimeoutRef = i]
        ELSE w

\* the scheduled keycloakInstance.updateToken(30) resolves: lines 280-305
refreshResolved(w, f, i, refreshed) ==
    LET inst == w.kcInstances[i]
        w1 == IF refreshed /\ w.facades[f].isMounted
              THEN LET wa == [w EXCEPT !.facades[f] =
                                setState(@, [@ EXCEPT !.token = inst.token,
                                                      !.refreshToken = inst.refreshToken])]
                       wb == notifyStateChange(wa, [Event("TOKEN_UPDATED") EXCEPT
                                                      !.token = inst.token,
                                                      !.refreshToken = inst.refreshToken])
                   IN  loadRoleAttributes(wb, f, i)
              ELSE w
    IN  IF w1.facades[f].isMounted
        THEN [w1 EXCEPT !.timers = @ \cup {<<f, i>>},
                        !.facades[f].updateTokenTimeoutRef = i]
        ELSE w1

\* a catch block that also drops the session
refreshRejected_Reset(w, f, i) ==
    resetGlobalState([w EXCEPT !.facades[f] =
                        IF @.isMounted
                        THEN setState(@, [@ EXCEPT !.error = SessionExpiredMsg])
                        ELSE @])

\* a catch block that arms the timer again
refreshRejected_Retry(w, f, i) ==
    [w EXCEPT !.facades[f] = IF @.isMounted
                             THEN setState(@, [@ EXCEPT !.error = SessionExpiredMsg,
                                                        !.updateTokenTimeoutRef = i])
                             ELSE @,
              !.timers = IF w.facades[f].isMounted THEN @ \cup {<<f, i>>} ELSE @]

\* the scheduled keycloakInstance.updateToken(30) rejects: lines 307-315
refreshRejected(w, f, i) ==
    [w EXCEPT !.facades[f] = IF @.isMounted
                             THEN setState(@, [@ EXCEPT !.error = SessionExpiredMsg])
                             ELSE @]

\* the provider's own token refresh: a new token pair, with new claims
providerRefresh(inst) ==
    [inst EXCEPT !.token = @ + 1, !.refreshToken = @ + 1,
                 !.tokenParsed = providerClaims.refreshed]

CanRefresh(i) == kcInstances[i].token < Tok(i, MaxTok)

RefreshResolves(f, i, refreshed) ==
    /\ ~RenderDue
    /\ <<f, i>> \in refreshInFlight
    /\ refreshed => CanRefresh(i)
    /\ LET w1 == [World EXCEPT !.refreshInFlight = @ \ {<<f, i>>},
                               !.kcInstances[i] = IF refreshed
                                                  THEN providerRefresh(@) ELSE @]
       IN  Commit(refreshResolved(w1, f, i, refreshed))

RefreshRejects(f, i) ==
    /\ ~RenderDue
    /\ failures < MaxFailures
    /\ <<f, i>> \in refreshInFlight
    /\ Commit(refreshRejected([World EXCEPT !.refreshInFlight = @ \ {<<f, i>>},
                                             !.failures = @ + 1], f, i))

\* The ref keeps the id of a timer that has fired.  clearTimeout of such an id does nothing,
\* so the stale id behaves as null in lines 269-272, 455-458 and 592-595.
timerFired(w, f, i) ==
    IF w.facades[f].updateTokenTimeoutRef = i
    THEN [w EXCEPT !.facades[f].updateTokenTimeoutRef = 0] ELSE w

\* the timer armed at line 304 fires and runs updateToken
TimerFires(f, i) ==
    /\ ~RenderDue
    /\ <<f, i>> \in timers
    /\ Commit(scheduledUpdateToken(timerFired([World EXCEPT !.timers = @ \ {<<f, i>>}], f, i),
                                    f, i))

----------------------------------------------------------------------------
(* Logout *)

\* keycloak.logout(...) is called on instance k (line 475): the call is in flight, and
\* the shared state it was issued in is noted
callProviderLogout(w, f, k) ==
    [w EXCEPT !.logoutPending = @ \cup {<<f, k>>},
              !.logoutIssued =
                 [issued |-> TRUE, phase |-> w.initializationState,
                  client |-> w.keycloakSingleton,
                  resetDelivered |-> \A g \in Range(w.stateSubscribers) \ {0} :
                                        w.received[g].type = "RESET"]]

\* logout that calls the provider first and resets afterwards
logout_CallFirst(w, f) ==
    LET k == w.facades[f].rendered
    IN  IF k = 0 THEN w
        ELSE resetGlobalState(callProviderLogout(clearRefreshTimeout(w, f), f, k))

\* logout of facade f (lines 448-475), up to the provider call; its closure holds the
\* keycloak of the last render
logout(w, f) ==
    LET k == w.facades[f].rendered
        w1 == clearRefreshTimeout(w, f)
        w2 == [w1 EXCEPT !.facades[f] =
                 IF @.isMounted
                 THEN setState(@, [@ EXCEPT !.authenticated = FALSE, !.userInfo = 0,
                                            !.token = 0, !.refreshToken = 0,
                                            !.roleAttributes = EmptyMap,
                                            !.permissions = EmptyMap, !.loading = TRUE])
                 ELSE @]
        w3 == resetGlobalState(w2)
    IN  IF k = 0 THEN w
        ELSE callProviderLogout(w3, f, k)

\* a catch block that reports the error and leaves the shared state alone
logoutRejected_NoReset(w, f) ==
    [w EXCEPT !.lastCall = Rejected("logout", f, "caught"),
              !.facades[f] = IF @.isMounted
                             THEN setState(@, [@ EXCEPT !.error = LogoutFailedMsg,
                                                        !.loading = FALSE])
                             ELSE @]

\* the catch block of logout (lines 480-491): nothing is thrown on
logoutRejected(w, f) ==
    resetGlobalState([w EXCEPT !.lastCall = Rejected("logout", f, "caught"),
                               !.facades[f] =
                                  IF @.isMounted
                                  THEN setState(@, [@ EXCEPT !.error = LogoutFailedMsg,
                                                             !.loading = FALSE])
                                  ELSE @])

Logout(f) ==
    /\ ~RenderDue
    /\ facades[f].life = "attached"
    /\ facades[f].rendered # 0
    /\ <<f, facades[f].rendered>> \notin logoutPending
    /\ Commit(logout(World, f))

LogoutResolves(f, i) ==
    /\ ~RenderDue
    /\ <<f, i>> \in logoutPending
    /\ Commit([World EXCEPT !.logoutPending = @ \ {<<f, i>>}])

\* keycloak.logout rejects (lines 480-491); each rejection ends a pending logout, and a
\* logout needs a client of its own, so the rejections are bounded by the clients
LogoutRejects(f, i) ==
    /\ ~RenderDue
    /\ <<f, i>> \in logoutPending
    /\ Commit(logoutRejected([World EXCEPT !.logoutPending = @ \ {<<f, i>>}], f))

----------------------------------------------------------------------------
(* Facade methods that call the provider: updateProfile, updateToken *)

\* updateProfile (lines 495-505) up to the provider call; its closure holds the keycloak of
\* the last render.  Without an authenticated client it throws at once (line 497).
updateProfile_NoGuard(w, f) ==
    LET k == w.facades[f].rendered
    IN  [w EXCEPT !.facades[f] = IF @.isMounted THEN setState(@, [@ EXCEPT !.loading = TRUE])
                                 ELSE @,
                  !.callsPending = @ \cup {<<"updateProfile", f, k>>}]

updateProfile(w, f) ==
    LET k == w.facades[f].rendered
    IN  IF k = 0 \/ ~w.kcInstances[k].authenticated
        THEN [w EXCEPT !.lastCall = Rejected("updateProfile", f, "misuse"), !.failures = @ + 1]
        ELSE [w EXCEPT !.facades[f] = IF @.isMounted
                                      THEN setState(@, [@ EXCEPT !.loading = TRUE])
                                      ELSE @,
                       !.callsPending = @ \cup {<<"updateProfile", f, k>>}]

\* keycloak.accountManagement() resolved (lines 507-509)
updateProfileResolved(w, f) ==
    [w EXCEPT !.facades[f] = IF @.isMounted THEN setState(@, [@ EXCEPT !.loading = FALSE])
                             ELSE @]

\* keycloak.accountManagement() rejected (lines 510-520): local error, then `throw err`
updateProfileRejected(w, f) ==
    [w EXCEPT !.lastCall = Rejected("updateProfile", f, "thrown"),
              !.facades[f] = IF @.isMounted
                             THEN setState(@, [@ EXCEPT !.error = UpdateProfileFailedMsg,
                                                        !.loading = FALSE])
                             ELSE @]

\* the manual updateToken (lines 524-530) up to the provider call.  Without a client it
\* throws at once (line 526).
updateToken(w, f) ==
    IF w.facades[f].rendered = 0
    THEN [w EXCEPT !.lastCall = Rejected("updateToken", f, "misuse"), !.failures = @ + 1]
    ELSE [w EXCEPT !.callsPending = @ \cup {<<"updateToken", f, w.facades[f].rendered>>}]

\* keycloak.updateToken(minValidity) resolved (lines 532-553)
updateTokenResolved(w, f, i, refreshed) ==
    LET inst == w.kcInstances[i]
    IN  IF refreshed /\ w.facades[f].isMounted
        THEN LET wa == [w EXCEPT !.facades[f] =
                          setState(@, [@ EXCEPT !.token = inst.token,
                                                !.refreshToken = inst.refreshToken])]
                 wb == notifyStateChange(wa, [Event("TOKEN_UPDATED") EXCEPT
                                                !.token = inst.token,
                                                !.refreshToken = inst.refreshToken])
             IN  loadRoleAttributes(wb, f, i)
        ELSE w

\* keycloak.updateToken(minValidity) rejected (lines 554-557): logged, then `throw err`
updateTokenRejected(w, f) ==
    [w EXCEPT !.lastCall = Rejected("updateToken", f, "thrown")]

UpdateProfileCall(f) ==
    /\ ~RenderDue
    /\ facades[f].life = "attached"
    /\ updateProfile(World, f).failures <= MaxFailures
    /\ <<"updateProfile", f, facades[f].rendered>> \notin callsPending
    /\ Commit(updateProfile(World, f))

UpdateProfileResolves(f, i) ==
    /\ ~RenderDue
    /\ <<"updateProfile", f, i>> \in callsPending
    /\ Commit(updateProfileResolved([World EXCEPT !.callsPending = @ \ {<<"updateProfile", f, i>>}],
                                     f))

UpdateProfileRejects(f, i) ==
    /\ ~RenderDue
    /\ failures < MaxFailures
    /\ <<"updateProfile", f, i>> \in callsPending
    /\ Commit(updateProfileRejected([World EXCEPT !.callsPending = @ \ {<<"updateProfile", f, i>>},
                                                   !.failures = @ + 1], f))

UpdateTokenCall(f) ==
    /\ ~RenderDue
    /\ facades[f].life = "attached"
    /\ updateToken(World, f).failures <= MaxFailures
    /\ <<"updateToken", f, facades[f].rendered>> \notin callsPending
    /\ Commit(updateToken(World, f))

UpdateTokenResolves(f, i, refreshed) ==
    /\ ~RenderDue
    /\ <<"updateToken", f, i>> \in callsPending
    /\ refreshed => CanRefresh(i)
    /\ LET w1 == [World EXCEPT !.callsPending = @ \ {<<"updateToken", f, i>>},
                               !.kcInstances[i] = IF refreshed
                                                  THEN providerRefresh(@) ELSE @]
       IN  Commit(updateTokenResolved(w1, f, i, refreshed))

UpdateTokenRejects(f, i) ==
    /\ ~RenderDue
    /\ failures < MaxFailures
    /\ <<"updateToken", f, i>> \in callsPending
    /\ Commit(updateTokenRejected([World EXCEPT !.callsPending = @ \ {<<"updateToken", f, i>>},
                                                 !.failures = @ + 1], f))

----------------------------------------------------------------------------
(* Provider hooks (lines 355-373) *)

\* a remote-logout hook that only logs
onAuthLogout_LogOnly(w) ==
    [w EXCEPT !.lastCall = Hook("onAuthLogout")]

\* keycloakInstance.onAuthLogout (lines 370-373)
onAuthLogout(w) ==
    resetGlobalState([w EXCEPT !.lastCall = Hook("onAuthLogout")])

\* keycloakInstance.onAuthRefreshSuccess (lines 362-364): debugLog only
onAuthRefreshSuccess(w) ==
    [w EXCEPT !.lastCall = Hook("onAuthRefreshSuccess")]

\* keycloakInstance.onAuthRefreshError (lines 366-368): console.error only
onAuthRefreshError(w) ==
    [w EXCEPT !.lastCall = Hook("onAuthRefreshError")]

\* the provider ends the session of instance i and calls onAuthLogout
OnAuthLogout(i) ==
    /\ ~RenderDue
    /\ i = keycloakSingleton
    /\ kcInstances[i].authenticated
    /\ Commit(onAuthLogout(World))

\* the provider finds the token of instance i expired and calls onTokenExpired (lines
\* 355-360), whose updateToken(30) succeeds: the instance holds a new token pair, and the
\* provider calls onAuthRefreshSuccess
OnTokenExpired(i) ==
    /\ ~RenderDue
    /\ i = keycloakSingleton
    /\ kcInstances[i].authenticated
    /\ CanRefresh(i)
    /\ Commit(onAuthRefreshSuccess([World EXCEPT !.kcInstances[i] = providerRefresh(@)]))

\* the updateToken(30) of onTokenExpired is rejected: the provider calls
\* onAuthRefreshError, and the hook's catch (lines 357-359) logs
OnTokenExpiredFails(i) ==
    /\ ~RenderDue
    /\ failures < MaxFailures
    /\ i = keycloakSingleton
    /\ kcInstances[i].authenticated
    /\ Commit(onAuthRefreshError([World EXCEPT !.failures = @ + 1]))

----------------------------------------------------------------------------
(* Specifications *)

----------------------------------------------------------------------------
(* The request layer (services/api.service.js) and the KeycloakProvider component *)

\* setTokenGetter(getToken, logout) with the functions of facade f (lines 19-22)
setTokenGetter(w, f) == [w EXCEPT !.logoutFunction = f]

\* handleApiError(error, logoutFunction) (lines 162-201): every case of the switch logs and
\* shows a message; the second parameter is not used
handleApiError(w, status, logoutFn) ==
    [w EXCEPT !.lastCall = [op |-> "handleApiError", f |-> logoutFn, outcome |-> status]]

\* the KeycloakProvider component mounts: its useKeycloak() attaches, then its effect
\* registers getToken and logout with the request layer (keycloakContext.jsx lines 11-19);
\* the effect runs again whenever a re-render has recreated them
KeycloakProviderMount(f) ==
    /\ ~RenderDue
    /\ logoutFunction = 0
    /\ facades[f].life = "fresh"
    /\ HasRoom(World)
    /\ LET w1 == [World EXCEPT !.facades[f] = useStateInit(World)]
       IN  Commit(setTokenGetter(mountEffect(subscribe(w1, f), f), f))

\* the backend answers a request with an error: the response interceptor's error handler
\* (lines 66-69)
ApiResponseError(status) ==
    /\ ~RenderDue
    /\ Commit(handleApiError(World, status, logoutFunction))

----------------------------------------------------------------------------

InitCommon ==
    /\ keycloakSingleton = 0
    /\ keycloakInitPromise = 0
    /\ initializationState = "idle"
    /\ globalError = NoError
    /\ stateSubscribers = <<>>
    /\ kcInstances = [i \in Inst |-> NewInstance]
    /\ facades = [f \in Facades |-> FreshFacade]
    /\ initAwaiters = {}
    /\ initCallers = {}
    /\ profilePending = {}
    /\ refreshInFlight = {}
    /\ timers = {}
    /\ logoutPending = {}
    /\ notified = NoEvent
    /\ received = [f \in Facades |-> NoEvent]
    /\ failures = 0
    /\ logoutIssued = NotIssued
    /\ callsPending = {}
    /\ deliveries = <<>>
    /\ logoutFunction = 0
    /\ lastCall = NoCall

\* the user who logs in: a custom-role holder first, a super-role holder next, and so on
DefaultClaims == [login |-> [i \in Inst |-> LoginClaims(i)], refreshed |-> RefreshedClaims]

Init == InitCommon /\ faulty = {} /\ reentrant = NoReentry /\ providerClaims = DefaultClaims

\* the subscriber of the first facade throws whenever it is invoked (the facades are
\* interchangeable: either may attach first)
InitFault == InitCommon /\ providerClaims = DefaultClaims /\ reentrant = NoReentry /\ faulty \in {{f} : f \in {g \in Facades : \A h \in Facades : g <= h}}

\* raw values of a role_attributes entry: true, "true", "1", 1, false, "false", 0, an
\* undefined value, "yes"
AttrValues == {"b_true", "s_true", "s_1", "n_1", "b_false", "s_false", "n_0", "undefined", "s_yes"}

\* realm_access.roles of the tokens tried
RealmRoleInputs ==
    { <<>>, <<"default-roles-dreamn", "offline_access">>, <<"uma_authorization">>,
      <<"editor">>, <<"editor", "viewer">>, <<"tsadmin">>, <<"tsadmin", "editor">>,
      <<"two-shoulder">>, <<"two-shoulder", "editor">>, <<NonStringRole>>,
      <<"default-roles-", "default-roles", "">>,
      <<"tsadmin", NonStringRole>> }

\* resource_access[clientId].roles of the tokens tried
ClientRoleInputs == { <<>>, <<"auditor">>, <<"tsadmin">> }

\* role_attributes of the tokens tried
AttrInputs ==
    {EmptyMap} \cup {("reports" :> v) : v \in AttrValues}
               \cup {("admin" :> v @@ "reports" :> "b_false") : v \in {"b_true", "b_false"}}

\* the tokens tried: with role_attributes, without, and without parsed claims at all
ClaimInputs ==
    {[parsed |-> TRUE, realmRoles |-> r, clientRoles |-> c, hasAttrs |-> TRUE,
      role_attributes |-> a] : r \in RealmRoleInputs, c \in ClientRoleInputs, a \in AttrInputs}
    \cup {[parsed |-> p, realmRoles |-> r, clientRoles |-> c, hasAttrs |-> FALSE,
           role_attributes |-> EmptyMap] :
              p \in BOOLEAN, r \in RealmRoleInputs, c \in ClientRoleInputs}

\* any of the tokens is issued at login; a refresh re-issues it, or issues it with a
\* roles array that holds a non-string, or without role_attributes
InitPerm ==
    /\ InitCommon
    /\ faulty = {}
    /\ reentrant = NoReentry
    /\ \E c \in ClaimInputs :
          \E r \in {c, [c EXCEPT !.realmRoles = <<NonStringRole>>],
                      [c EXCEPT !.hasAttrs = FALSE, !.role_attributes = EmptyMap]} :
             providerClaims = [login |-> [i \in Inst |-> c], refreshed |-> r]

\* one session: attach, sign-in, profile, scheduled refreshes
NextPerm ==
    \/ \E f \in Facades : Attach(f)
    \/ \E f \in Facades : Render(f)
    \/ \E i \in Inst, auth \in BOOLEAN : ProviderInitResolves(i, auth)
    \/ \E f \in Facades, i \in Inst : ProfileResolves(f, i)
    \/ \E f \in Facades, i \in Inst, r \in BOOLEAN : RefreshResolves(f, i, r)
    \/ \E f \in Facades, i \in Inst : TimerFires(f, i)

Next ==
    \/ \E f \in Facades : Attach(f)
    \/ \E f \in Facades : Render(f)
    \/ \E f \in Facades : Detach(f)
    \/ \E f \in Facades : InitKeycloakCall(f)
    \/ \E i \in Inst, auth \in BOOLEAN : ProviderInitResolves(i, auth)
    \/ \E i \in Inst : ProviderInitRejects(i)
    \/ \E f \in Facades, i \in Inst : ProfileResolves(f, i)
    \/ \E f \in Facades, i \in Inst : ProfileRejects(f, i)
    \/ \E f \in Facades, i \in Inst, r \in BOOLEAN : RefreshResolves(f, i, r)
    \/ \E f \in Facades, i \in Inst : RefreshRejects(f, i)
    \/ \E f \in Facades, i \in Inst : TimerFires(f, i)
    \/ \E f \in Facades : Logout(f)
    \/ \E f \in Facades, i \in Inst : LogoutResolves(f, i)
    \/ \E f \in Facades, i \in Inst : LogoutRejects(f, i)
    \/ \E i \in Inst : OnAuthLogout(i)
    \/ \E i \in Inst : OnTokenExpired(i)
    \/ \E i \in Inst : OnTokenExpiredFails(i)

Spec == Init /\ [][Next]_vars

\* sessions in which UI code calls the facade methods logout, updateProfile and updateToken
NextCalls ==
    \/ \E f \in Facades : Attach(f)
    \/ \E f \in Facades : Render(f)
    \/ \E i \in Inst, auth \in BOOLEAN : ProviderInitResolves(i, auth)
    \/ \E f \in Facades, i \in Inst : ProfileResolves(f, i)
    \/ \E f \in Facades : Logout(f)
    \/ \E f \in Facades, i \in Inst : LogoutResolves(f, i)
    \/ \E f \in Facades, i \in Inst : LogoutRejects(f, i)
    \/ \E f \in Facades : UpdateProfileCall(f)
    \/ \E f \in Facades, i \in Inst : UpdateProfileResolves(f, i)
    \/ \E f \in Facades, i \in Inst : UpdateProfileRejects(f, i)
    \/ \E f \in Facades : UpdateTokenCall(f)
    \/ \E f \in Facades, i \in Inst, r \in BOOLEAN : UpdateTokenResolves(f, i, r)
    \/ \E f \in Facades, i \in Inst : UpdateTokenRejects(f, i)

SpecCalls == Init /\ [][NextCalls]_vars

\* the application under its KeycloakProvider, with requests to the backend
NextApi ==
    \/ \E f \in Facades : KeycloakProviderMount(f)
    \/ \E f \in Facades : Attach(f)
    \/ \E f \in Facades : Render(f)
    \/ \E i \in Inst, auth \in BOOLEAN : ProviderInitResolves(i, auth)
    \/ \E f \in Facades, i \in Inst : ProfileResolves(f, i)
    \/ \E f \in Facades, i \in Inst, r \in BOOLEAN : RefreshResolves(f, i, r)
    \/ \E f \in Facades, i \in Inst : TimerFires(f, i)
    \/ \E f \in Facades : Logout(f)
    \/ \E f \in Facades, i \in Inst : LogoutResolves(f, i)
    \/ \E status \in ApiStatuses : ApiResponseError(status)

SpecApi == Init /\ [][NextApi]_vars

\* the invocation of one subscriber with one type of event mounts or unmounts a component
\* before it returns
InitReentrant ==
    /\ InitCommon
    /\ faulty = {}
    /\ providerClaims = DefaultClaims
    /\ reentrant \in [by : Facades, on : {"RESET", "INITIALIZED", "TOKEN_UPDATED"},
                      op : {"add", "remove"}, target : Facades]

\* sessions whose broadcasts meet such a subscriber
NextReentrant ==
    \/ \E f \in Facades : Attach(f)
    \/ \E f \in Facades : Render(f)
    \/ \E i \in Inst, auth \in BOOLEAN : ProviderInitResolves(i, auth)
    \/ \E i \in Inst : ProviderInitRejects(i)
    \/ \E f \in Facades, i \in Inst : ProfileResolves(f, i)
    \/ \E f \in Facades, i \in Inst, r \in BOOLEAN : RefreshResolves(f, i, r)
    \/ \E f \in Facades, i \in Inst : TimerFires(f, i)
    \/ \E f \in Facades : Logout(f)
    \/ \E f \in Facades, i \in Inst : LogoutResolves(f, i)
    \/ \E i \in Inst : OnAuthLogout(i)

SpecReentrant == InitReentrant /\ [][NextReentrant]_vars

\* every step that broadcasts or settles a provider call, with a subscriber that throws
NextFault ==
    \/ \E f \in Facades : Attach(f)
    \/ \E f \in Facades : Render(f)
    \/ \E f \in Facades : Detach(f)
    \/ \E f \in Facades : InitKeycloakCall(f)
    \/ \E i \in Inst, auth \in BOOLEAN : ProviderInitResolves(i, auth)
    \/ \E i \in Inst : ProviderInitRejects(i)
    \/ \E f \in Facades, i \in Inst : ProfileResolves(f, i)
    \/ \E f \in Facades, i \in Inst : ProfileRejects(f, i)
    \/ \E f \in Facades, i \in Inst, r \in BOOLEAN : RefreshResolves(f, i, r)
    \/ \E f \in Facades, i \in Inst : RefreshRejects(f, i)
    \/ \E f \in Facades, i \in Inst : TimerFires(f, i)
    \/ \E f \in Facades : Logout(f)
    \/ \E f \in Facades, i \in Inst : LogoutResolves(f, i)
    \/ \E f \in Facades, i \in Inst : LogoutRejects(f, i)
    \/ \E i \in Inst : OnAuthLogout(i)

SpecFault == InitFault /\ [][NextFault]_vars

SpecPerm == InitPerm /\ [][NextPerm]_vars

\* one application from mount to sign-out: components mount and unmount, the provider
\* answers, users sign out
NextLive ==
    \/ \E f \in Facades : Attach(f)
    \/ \E f \in Facades : Render(f)
    \/ \E f \in Facades : Detach(f)
    \/ \E f \in Facades : InitKeycloakCall(f)
    \/ \E i \in Inst, auth \in BOOLEAN : ProviderInitResolves(i, auth)
    \/ \E i \in Inst : ProviderInitRejects(i)
    \/ \E f \in Facades, i \in Inst : ProfileResolves(f, i)
    \/ \E f \in Facades : Logout(f)
    \/ \E f \in Facades, i \in Inst : LogoutResolves(f, i)
    \/ \E f \in Facades, i \in Inst : LogoutRejects(f, i)

\* the provider settles the init call of client i: keycloakInstance.init(...) returns or
\* rejects
ProviderAnswersInit(i) ==
    \/ \E auth \in BOOLEAN : ProviderInitResolves(i, auth)
    \/ ProviderInitRejects(i)

\* the provider settles its other calls: loadUserProfile and logout
ProviderAnswersCall ==
    \/ \E f \in Facades, i \in Inst : ProfileResolves(f, i)
    \/ \E f \in Facades, i \in Inst : LogoutResolves(f, i)

\* React runs the renders it has scheduled, and the provider settles every call
SpecLive ==
    /\ Init
    /\ [][NextLive]_vars
    /\ WF_vars(\E f \in Facades : Render(f))
    /\ \A i \in Inst : WF_vars(ProviderAnswersInit(i))
    /\ WF_vars(ProviderAnswersCall)

TypeOK ==
    /\ keycloakSingleton \in 0..MaxInst
    /\ keycloakInitPromise \in 0..MaxInst
    /\ initializationState \in {"idle", "initializing", "initialized", "failed"}
    /\ globalError \in {NoError, InitErrorObj}
    /\ Range(stateSubscribers) \subseteq Facades
    /\ Len(stateSubscribers) = Cardinality(Range(stateSubscribers))
    /\ initAwaiters \cup initCallers \subseteq Facades \X Inst
    /\ profilePending \cup refreshInFlight \cup timers \cup logoutPending \subseteq Facades \X Inst
    /\ failures \in 0..MaxFailures
    /\ faulty \subseteq Facades
    /\ reentrant.by \in {0} \cup Facades
    /\ reentrant.op \in {"none", "add", "remove"}
    /\ callsPending \subseteq FacadeOps \X Facades \X Inst
    /\ \A k \in 1..Len(deliveries) : deliveries[k][1] \in Facades
    /\ logoutFunction \in {0} \cup Facades
    /\ lastCall.op \in FacadeOps \cup ProviderHooks \cup {"logout", "handleApiError", "none"}
    /\ lastCall.outcome \in {"caught", "thrown", "misuse", "hook", "none"} \cup ApiStatuses

----------------------------------------------------------------------------
(* Properties *)

Attached == {f \in Facades : facades[f].life = "attached"}

\* provider init calls in flight
InitsInFlight == {i \in Inst : kcInstances[i].status = "initializing"}

\* instances constructed so far: each one had init called on it once (lines 352, 375)
Constructed == {i \in Inst : kcInstances[i].status # "unused"}

\* the initKeycloak calls that wait for an initialization to settle
Callers == initAwaiters \cup initCallers

\* C1: callers that arrive while an initialization is pending start no provider init of
\* their own; a call made while idle starts exactly one; every new caller waits for the
\* pending init of the shared promise; and when that init resolves, all of its callers are
\* settled in the same turn and every attached facade holds the one value it resolved with.
C1_OneInitSameOutcome ==
    [][ /\ initializationState = "initializing"
            => {i \in Inst : kcInstances'[i].status # "unused"} = Constructed
        /\ (initializationState = "idle" /\ (initAwaiters' \cup initCallers') \ Callers # {})
            => Cardinality({i \in Inst : kcInstances'[i].status # "unused"})
                 = Cardinality(Constructed) + 1
        /\ \A p \in (initAwaiters' \cup initCallers') \ Callers :
              /\ p[2] = keycloakInitPromise'
              /\ kcInstances'[p[2]].status = "initializing"
        /\ \A i \in Inst :
              (kcInstances[i].status = "initializing" /\ kcInstances'[i].status = "initialized")
              => /\ \A p \in initAwaiters' \cup initCallers' : p[2] # i
                 /\ \A f \in Facades :
                       facades'[f].life = "attached"
                       => facades'[f].authenticated = kcInstances'[i].authenticated
      ]_vars

\* two callers wait for the same pending init
C1_Witness ==
    \E i \in InitsInFlight : \E f, g \in Attached :
        f # g /\ <<f, i>> \in initAwaiters /\ <<g, i>> \in initCallers

\* C2: at most one provider init call is in flight
C2_AtMostOneInitInFlight == Cardinality(InitsInFlight) <= 1

\* C3: while no client is published (after a RESET, until a new initialization completes)
\* every attached facade is unauthenticated, without token and without permissions
C3_NoStaleSessionValues ==
    keycloakSingleton = 0
    => \A f \in Attached : /\ ~facades[f].authenticated
                           /\ facades[f].token = 0
                           /\ facades[f].permissions = EmptyMap

\* C4: whenever an event is notified, every subscriber, the throwing ones included, has
\* been invoked with that very event, a throwing subscriber stays subscribed, and every
\* subscriber that does not throw has applied it
C4_FaultIsolation ==
    [][ notified' # notified
        => /\ \A f \in Range(stateSubscribers') : received'[f] = notified'
           /\ \A f \in faulty : f \in Range(stateSubscribers)
                                  /\ facades'[f].life = "attached"
                                  => f \in Range(stateSubscribers')
           /\ notified'.type = "TOKEN_UPDATED"
                => \A f \in Range(stateSubscribers') \ faulty :
                      facades'[f].token = notified'.token
      ]_vars

\* a throwing subscriber was invoked before one that does not throw, and both got TOKEN_UPDATED
C4_Witness ==
    \E f \in faulty : \E g \in Facades \ faulty :
        /\ \E j, k \in 1..Len(stateSubscribers) :
              j < k /\ stateSubscribers[j] = f /\ stateSubscribers[k] = g
        /\ notified.type = "TOKEN_UPDATED"
        /\ received[f] = notified
        /\ received[g] = notified
        /\ facades[g].token = notified.token

\* C5: while the shared phase is initializing, every attached facade reports loading
C5_LoadingWhileInitializing ==
    initializationState = "initializing" => \A f \in Attached : facades[f].loading

\* a scheduled refresh of facade f on instance i was rejected in this step
ScheduledRefreshRejected(f, i) ==
    /\ <<f, i>> \in refreshInFlight
    /\ <<f, i>> \notin refreshInFlight'
    /\ failures' = failures + 1

\* C6: when a scheduled refresh is rejected, every attached facade ends with the
\* re-authentication message in its error field
C6_RefreshFailureBroadcast ==
    [][ \A f \in Facades, i \in Inst :
          ScheduledRefreshRejected(f, i)
          => \A g \in Facades : facades'[g].life = "attached"
                                => facades'[g].error = SessionExpiredMsg
      ]_vars

\* what getToken of facade f returns in the current state and in the next one
GetTokenNow(f) == getToken(World, f)
GetTokenNext(f) == IF facades'[f].rendered = 0 THEN 0
                   ELSE kcInstances'[facades'[f].rendered].token

\* C7: a rejected scheduled refresh leaves, for every attached facade, the result of
\* getToken, the token state, authenticated and permissions as they were, leaves the shared
\* phase and client as they were, and getToken of a facade that holds the instance is not null
C7_RefreshFailureFrame ==
    [][ \A f \in Facades, i \in Inst :
          ScheduledRefreshRejected(f, i)
          => /\ initializationState' = initializationState
             /\ keycloakSingleton' = keycloakSingleton
             /\ keycloakInitPromise' = keycloakInitPromise
             /\ \A g \in Attached :
                   /\ GetTokenNext(g) = GetTokenNow(g)
                   /\ facades'[g].token = facades[g].token
                   /\ facades'[g].refreshToken = facades[g].refreshToken
                   /\ facades'[g].authenticated = facades[g].authenticated
                   /\ facades'[g].permissions = facades[g].permissions
                   /\ facades'[g].keycloak = facades[g].keycloak
                   /\ facades[g].rendered = i => GetTokenNext(g) # 0
      ]_vars

\* a facade shows the re-authentication message and still hands out the token of its client
C7_Witness ==
    \E f \in Attached : /\ facades[f].error = SessionExpiredMsg
                        /\ facades[f].authenticated
                        /\ facades[f].rendered = keycloakSingleton
                        /\ getToken(World, f) # 0
                        /\ facades[f].token = getToken(World, f)

\* C8: when the facade that owns the refresh loop of the live client detaches while another
\* facade stays attached and the client stays live, the loop goes on (its timer stays armed
\* or its refresh attempt stays in flight)
C8_LoopSurvivesDetach ==
    [][ \A f \in Facades, i \in Inst :
          ( /\ i = keycloakSingleton
            /\ keycloakSingleton' = i
            /\ <<f, i>> \in timers \cup refreshInFlight
            /\ facades[f].life = "attached"
            /\ facades'[f].life = "detached"
            /\ \E g \in Facades \ {f} : facades'[g].life = "attached" )
          => \E g \in Facades : <<g, i>> \in timers' \cup refreshInFlight'
      ]_vars

\* C9: no refresh attempt is started and no refresh timer is armed for an instance that is
\* not the live client
C9_NoRefreshOnDiscarded ==
    [][ /\ \A p \in timers' \ timers : p[2] = keycloakSingleton'
        /\ \A p \in refreshInFlight' \ refreshInFlight : p[2] = keycloakSingleton'
      ]_vars

\* C10: whenever the provider's logout has been called, the shared state had been reset
\* (phase idle, no client) and every subscriber had been handed RESET at the moment of the call
C10_ResetBeforeRemoteLogout ==
    logoutIssued.issued
    => /\ logoutIssued.phase = "idle"
       /\ logoutIssued.client = 0
       /\ logoutIssued.resetDelivered

\* a logout was called on an authenticated session that two facades observe
C10_Witness ==
    /\ logoutIssued.issued
    /\ logoutPending # {}
    /\ Cardinality(Attached) = 2
    /\ \A f \in Attached : received[f].type = "RESET" /\ ~facades[f].authenticated
    /\ \E p \in logoutPending : kcInstances[p[2]].authenticated

\* the provider's logout call of facade f on instance i was rejected in this step
LogoutRejected(f, i) ==
    /\ <<f, i>> \in logoutPending
    /\ <<f, i>> \notin logoutPending'
    /\ lastCall' = Rejected("logout", f, "caught")

\* C11: when the provider's logout call rejects, the shared state is reset (phase idle, no
\* client, no pending initialization) and every attached facade is unauthenticated, without
\* token and without permissions
C11_LogoutRejectResets ==
    [][ \A f \in Facades, i \in Inst :
          LogoutRejected(f, i)
          => /\ initializationState' = "idle"
             /\ keycloakSingleton' = 0
             /\ keycloakInitPromise' = 0
             /\ \A g \in Facades :
                   facades'[g].life = "attached"
                   => /\ ~facades'[g].authenticated
                      /\ facades'[g].token = 0
                      /\ facades'[g].permissions = EmptyMap
                      /\ received'[g].type = "RESET"
      ]_vars

\* a logout was rejected while two facades were attached and an initialization started after
\* the logout was still in flight
C11_Witness ==
    /\ lastCall = Rejected("logout", 1, "caught") \/ lastCall = Rejected("logout", 2, "caught")
    /\ Cardinality(Attached) = 2
    /\ InitsInFlight # {}
    /\ initializationState = "idle"
    /\ \A g \in Attached : received[g].type = "RESET" /\ ~facades[g].authenticated

\* the refresh loops that run on instance i: armed timers and scheduled refreshes in flight
LoopsOn(i) ==
    Cardinality({p \in timers : p[2] = i}) + Cardinality({p \in refreshInFlight : p[2] = i})

\* C12: the live client has at most one refresh loop, counted across all facades
C12_OneLoopPerLiveClient ==
    keycloakSingleton # 0 => LoopsOn(keycloakSingleton) <= 1

\* the scheduler has been started for a second session of the same facade: the loop of the
\* live client runs while that facade's loop on the previous client is still pending
C12_Witness ==
    /\ keycloakSingleton # 0
    /\ LoopsOn(keycloakSingleton) = 1
    /\ \E f \in Attached, i \in Inst :
          /\ i # keycloakSingleton
          /\ <<f, keycloakSingleton>> \in timers \cup refreshInFlight
          /\ <<f, i>> \in timers \cup refreshInFlight

\* C13: a facade that attaches while the phase is initialized constructs no client and calls
\* no init, and after its attach step it holds the shared client, already at its first
\* render, with the client's authenticated value and token, and loading = false
C13_AttachAdoptsSingleton ==
    [][ \A f \in Facades :
          ( /\ initializationState = "initialized"
            /\ facades[f].life = "fresh"
            /\ facades'[f].life = "attached" )
          => /\ {i \in Inst : kcInstances'[i].status # "unused"} = Constructed
             /\ {i \in Inst : kcInstances'[i].status = "initializing"} = InitsInFlight
             /\ initializationState' = "initialized"
             /\ keycloakSingleton' = keycloakSingleton
             /\ keycloakSingleton' # 0
             /\ facades'[f].rendered = keycloakSingleton'
             /\ facades'[f].keycloak = keycloakSingleton'
             /\ facades'[f].authenticated = kcInstances'[keycloakSingleton'].authenticated
             /\ facades'[f].token = kcInstances'[keycloakSingleton'].token
             /\ ~facades'[f].loading
      ]_vars

\* a facade that attached after the initialization completed (it has received no event)
\* holds the token of the authenticated shared client
C13_Witness ==
    \E f \in Attached :
        /\ initializationState = "initialized"
        /\ received[f] = NoEvent
        /\ facades[f].keycloak = keycloakSingleton
        /\ facades[f].authenticated
        /\ facades[f].token # 0
        /\ facades[f].token = kcInstances[keycloakSingleton].token
        /\ ~facades[f].loading

\* the module names asked about
ObservedModules == {"admin", "reports", "billing"}

\* C14: once the session is initialized and authenticated and every facade has rendered and
\* finished loading, all attached facades observe the same client, the same authenticated
\* value and the same answer of hasModulePermission for every module
C14_SameObservedState ==
    ( /\ initializationState = "initialized"
      /\ keycloakSingleton # 0
      /\ kcInstances[keycloakSingleton].authenticated
      /\ ~RenderDue
      /\ InitsInFlight = {}
      /\ profilePending = {}
      /\ logoutPending = {} )
    => \A f, g \in Attached :
          /\ facades[f].keycloak = facades[g].keycloak
          /\ facades[f].authenticated = facades[g].authenticated
          /\ \A m \in ObservedModules :
                hasModulePermission(World, f, m) = hasModulePermission(World, g, m)

\* facade f is attached and its last render shows its current state
Consistent(f) ==
    /\ facades[f].life = "attached"
    /\ facades[f].isMounted
    /\ facades[f].keycloak = facades[f].rendered

\* the signed-in user of client object inst holds role r, as a realm role or a client role
HoldsRole(inst, r) ==
    inst.authenticated /\ r \in Range(inst.tokenParsed.realmRoles) \cup Range(inst.tokenParsed.clientRoles)

\* C15: hasModulePermission(m) is false when the facade is unauthenticated or m is empty;
\* otherwise true when the user holds the super role; otherwise true exactly when the
\* permission map holds the boolean true for m
C15_HasModulePermission ==
    \A f \in Facades :
       Consistent(f)
       => \A m \in ObservedModules \cup {""} :
             hasModulePermission(World, f, m)
               = IF ~facades[f].authenticated \/ m = "" THEN FALSE
                 ELSE IF HoldsRole(InstOf(World, facades[f].rendered), SUPER_ROLE) THEN TRUE
                 ELSE m \in DOMAIN facades[f].permissions /\ facades[f].permissions[m] = TRUE

\* realm role tsadmin with role_attributes {admin: true, ...}: once the initialization has
\* completed the facade grants "admin", and also a module the claims do not name
C15_Witness ==
    \E f \in Facades :
        /\ Consistent(f)
        /\ initializationState = "initialized"
        /\ facades[f].authenticated
        /\ facades[f].rendered = keycloakSingleton
        /\ kcInstances[keycloakSingleton].tokenParsed.realmRoles = <<"tsadmin">>
        /\ "admin" \in DOMAIN roleAttributesFromToken(kcInstances[keycloakSingleton])
        /\ roleAttributesFromToken(kcInstances[keycloakSingleton])["admin"] = "b_true"
        /\ hasModulePermission(World, f, "admin")
        /\ hasModulePermission(World, f, "billing")
        /\ ~hasModulePermission(World, f, "")

\* every entry of the roles arrays of inst is a role name
WellFormedRoles(inst) ==
    NonStringRole \notin Range(inst.tokenParsed.realmRoles) \cup Range(inst.tokenParsed.clientRoles)

\* facade f shows client i, whose user is signed in
Shows(f, i) ==
    /\ Consistent(f)
    /\ facades[f].keycloak = i
    /\ facades[f].authenticated
    /\ kcInstances[i].authenticated

\* the world after facade f has resolved its permissions from the token of client i
Resolved(f, i) == loadRoleAttributes(World, f, i)

\* C16: for a super-role holder, permission resolution maps every module key of
\* role_attributes to true, whatever the raw value and whatever other roles are held
C16_SuperRoleAllTrue ==
    \A f \in Facades, i \in Inst :
       ( /\ Shows(f, i)
         /\ WellFormedRoles(kcInstances[i])
         /\ HoldsRole(kcInstances[i], SUPER_ROLE) )
       => LET perm == Resolved(f, i).facades[f].permissions
          IN  /\ DOMAIN perm = DOMAIN roleAttributesFromToken(kcInstances[i])
              /\ \A m \in DOMAIN perm : perm[m] = TRUE

\* a facade holds the permissions resolved for a super-role holder who also holds a
\* custom role: the raw value false has become true
C16_Witness ==
    \E f \in Facades, i \in Inst :
        /\ Shows(f, i)
        /\ kcInstances[i].tokenParsed.realmRoles = <<"tsadmin", "editor">>
        /\ "reports" \in DOMAIN roleAttributesFromToken(kcInstances[i])
        /\ roleAttributesFromToken(kcInstances[i])["reports"] = "b_false"
        /\ facades[f].permissions = Resolved(f, i).facades[f].permissions
        /\ "reports" \in DOMAIN facades[f].permissions
        /\ facades[f].permissions["reports"] = TRUE

\* C17: for a holder of the privileged role two-shoulder without the super role, permission
\* resolution maps every module key of role_attributes to true and hasModulePermission
\* grants each of them, whatever the raw values
C17_PrivilegedRoleAllTrue ==
    \A f \in Facades, i \in Inst :
       ( /\ Shows(f, i)
         /\ WellFormedRoles(kcInstances[i])
         /\ HoldsRole(kcInstances[i], "two-shoulder")
         /\ ~HoldsRole(kcInstances[i], SUPER_ROLE) )
       => LET perm == Resolved(f, i).facades[f].permissions
          IN  /\ DOMAIN perm = DOMAIN roleAttributesFromToken(kcInstances[i])
              /\ \A m \in DOMAIN perm :
                    perm[m] = TRUE /\ hasModulePermission(Resolved(f, i), f, m)

\* a facade holds the permissions resolved for a two-shoulder holder whose raw value for
\* "reports" is false, and grants "reports"
C17_Witness ==
    \E f \in Facades, i \in Inst :
        /\ Shows(f, i)
        /\ kcInstances[i].tokenParsed.realmRoles = <<"two-shoulder">>
        /\ kcInstances[i].tokenParsed.clientRoles = <<>>
        /\ "reports" \in DOMAIN roleAttributesFromToken(kcInstances[i])
        /\ roleAttributesFromToken(kcInstances[i])["reports"] = "b_false"
        /\ facades[f].permissions = Resolved(f, i).facades[f].permissions
        /\ hasModulePermission(World, f, "reports")

\* the raw values that grant a module: true, "true", "1", 1
GrantingValues == {"b_true", "s_true", "s_1", "n_1"}

\* the user of inst holds at least one custom role
HoldsCustomRole(inst) ==
    \E k \in 1..Len(getUserRoles(inst)) : isCustomRole(getUserRoles(inst)[k])

\* C18: for a holder of a custom role without super and privileged role, a module of
\* role_attributes is granted exactly when its raw value is true, "true", "1" or 1, in the
\* permission map and by hasModulePermission
C18_CustomRoleByValue ==
    \A f \in Facades, i \in Inst :
       ( /\ Shows(f, i)
         /\ WellFormedRoles(kcInstances[i])
         /\ ~HoldsRole(kcInstances[i], SUPER_ROLE)
         /\ ~HoldsRole(kcInstances[i], "two-shoulder")
         /\ HoldsCustomRole(kcInstances[i]) )
       => LET perm == Resolved(f, i).facades[f].permissions
              attrs == roleAttributesFromToken(kcInstances[i])
          IN  /\ DOMAIN perm = DOMAIN attrs
              /\ \A m \in DOMAIN attrs :
                    /\ perm[m] = (attrs[m] \in GrantingValues)
                    /\ hasModulePermission(Resolved(f, i), f, m) = (attrs[m] \in GrantingValues)

\* a facade holds the permissions resolved for an editor with role_attributes
\* {admin: true, reports: false}: it grants "admin" and denies "reports"
C18_Witness ==
    \E f \in Facades, i \in Inst :
        /\ Shows(f, i)
        /\ kcInstances[i].tokenParsed.realmRoles = <<"editor">>
        /\ kcInstances[i].tokenParsed.clientRoles = <<>>
        /\ roleAttributesFromToken(kcInstances[i]) = ("admin" :> "b_true" @@ "reports" :> "b_false")
        /\ facades[f].permissions = Resolved(f, i).facades[f].permissions
        /\ hasModulePermission(World, f, "admin")
        /\ ~hasModulePermission(World, f, "reports")

\* the claims of client object inst are malformed or lack role_attributes
Malformed(inst) ==
    \/ ~inst.tokenParsed.parsed
    \/ ~inst.tokenParsed.hasAttrs
    \/ ~WellFormedRoles(inst)

\* C19: when the claims are malformed or lack role_attributes, permission resolution sets no
\* error and leaves the permission map empty, so that a user without the super role is
\* denied every module
C19_MalformedClaimsEmptyMap ==
    \A f \in Facades, i \in Inst :
       (Shows(f, i) /\ Malformed(kcInstances[i]))
       => LET st == Resolved(f, i).facades[f]
          IN  /\ st.error = facades[f].error
              /\ st.permissions = EmptyMap
              /\ ~HoldsRole(kcInstances[i], SUPER_ROLE)
                    => \A m \in ObservedModules : ~hasModulePermission(Resolved(f, i), f, m)

\* C20: when the provider rejects a call made by a facade method (manual updateToken,
\* updateProfile, logout), the method catches the rejection, an ERROR event is broadcast in
\* that step, and every attached facade ends with its error field populated
C20_FailuresBecomeErrorEvents ==
    [][ lastCall'.outcome \in {"caught", "thrown"}
        => /\ lastCall'.outcome = "caught"
           /\ notified'.type = "ERROR"
           /\ \A g \in Facades : facades'[g].life = "attached" => facades'[g].error # NoError
      ]_vars

\* C21: updateProfile called without an authenticated client, and updateToken called without a
\* client, throw at once: no provider call is started and no state changes; a provider call
\* is only ever started on an authenticated client (updateProfile) or on a client (updateToken)
C21_MisuseThrowsAtOnce ==
    [][ /\ lastCall'.outcome = "misuse"
           => /\ lastCall'.op \in FacadeOps
              /\ UNCHANGED <<keycloakSingleton, keycloakInitPromise, initializationState,
                             globalError, stateSubscribers, kcInstances, facades, initAwaiters,
                             initCallers, profilePending, refreshInFlight, timers,
                             logoutPending, notified, received, callsPending>>
        /\ \A c \in callsPending' \ callsPending :
              /\ c[3] # 0
              /\ c[1] = "updateProfile" => kcInstances[c[3]].authenticated
      ]_vars

C21_Witness ==
    /\ lastCall = Rejected("updateProfile", 1, "misuse")
    /\ facades[1].rendered # 0
    /\ ~kcInstances[facades[1].rendered].authenticated

\* the load of the user profile started by facade f on client i is rejected in this step
ProfileLoadFails(f, i) ==
    /\ <<f, i>> \in profilePending
    /\ <<f, i>> \notin profilePending'
    /\ failures' = failures + 1

PendingInitRejected(i) ==
    /\ initializationState = "initializing"
    /\ keycloakInitPromise = i
    /\ kcInstances[i].status = "initializing"
    /\ kcInstances'[i].status \notin {"initializing", "initialized"}

\* the clients whose initialization is started in this step
InitsStarted == {i \in Inst : /\ kcInstances[i].status = "unused"
                              /\ kcInstances'[i].status = "initializing"}

C24_Unauthorized401SignsOut ==
    [][ \A f \in Facades :
          (/\ lastCall' = [op |-> "handleApiError", f |-> f, outcome |-> "401"]
           /\ logoutFunction = f
           /\ facades[f].life = "attached"
           /\ facades[f].rendered # 0
           /\ facades[f].authenticated)
          => /\ <<f, facades[f].rendered>> \in logoutPending'
             /\ keycloakSingleton' = 0
             /\ ~facades'[f].authenticated
      ]_vars

\* C25: when the provider calls onAuthLogout, the shared state is reset to phase idle with
\* no client, RESET is delivered, and every attached facade ends unauthenticated with no
\* client, no token and an empty permission map
C25_RemoteLogoutResets ==
    [][ lastCall' = Hook("onAuthLogout")
        => /\ initializationState' = "idle"
           /\ keycloakSingleton' = 0
           /\ keycloakInitPromise' = 0
           /\ notified'.type = "RESET"
           /\ \A g \in Facades :
                 facades'[g].life = "attached"
                 => /\ received'[g].type = "RESET"
                    /\ ~facades'[g].authenticated
                    /\ facades'[g].keycloak = 0
                    /\ facades'[g].token = 0
                    /\ facades'[g].refreshToken = 0
                    /\ facades'[g].userInfo = 0
                    /\ facades'[g].permissions = EmptyMap
      ]_vars

\* the remote logout has just reset two attached facades, one of which had been signed in
\* with permissions
C25_Witness ==
    /\ lastCall = Hook("onAuthLogout")
    /\ \A g \in Facades : facades[g].life = "attached" /\ received[g].type = "RESET"
    /\ \E g \in Facades : facades[g].rendered # 0 /\ ~facades[g].authenticated

\* C26: the provider hooks for an out-of-band refresh forward into the broadcast channel: a
\* successful refresh delivers TOKEN_UPDATED with the client's new token pair to every
\* subscriber, a failed one delivers ERROR to every subscriber
C26_HooksForwardToChannel ==
    [][ /\ lastCall' = Hook("onAuthRefreshSuccess")
           => /\ notified'.type = "TOKEN_UPDATED"
              /\ notified'.token = kcInstances'[keycloakSingleton'].token
              /\ notified'.refreshToken = kcInstances'[keycloakSingleton'].refreshToken
              /\ \A g \in Range(stateSubscribers') : received'[g] = notified'
        /\ lastCall' = Hook("onAuthRefreshError")
           => /\ notified'.type = "ERROR"
              /\ \A g \in Range(stateSubscribers') : received'[g] = notified'
      ]_vars

\* facade f detaches in this step
Detaches(f) == facades[f].life = "attached" /\ facades'[f].life = "detached"

\* C27: detaching a facade removes only its own subscription and cancels only its own timer:
\* the shared phase, client and pending initialization are unchanged, every other facade
\* keeps its state, every attached facade receives every later event, and the state of a
\* detached facade no longer changes
C27_DetachFrame ==
    [][ /\ \A f \in Facades :
             Detaches(f)
             => /\ UNCHANGED <<initializationState, keycloakSingleton, keycloakInitPromise,
                               globalError, notified>>
                /\ stateSubscribers' = SelectSeq(stateSubscribers, LAMBDA x : x # f)
                /\ f \in Range(stateSubscribers)
                /\ timers' = timers \ {<<f, facades[f].updateTokenTimeoutRef>>}
                /\ \A g \in Facades \ {f} :
                      /\ facades'[g] = facades[g]
                      /\ received'[g] = received[g]
                /\ \A i \in Inst :
                      kcInstances[i].status = "initializing"
                      => kcInstances'[i].status = "initializing"
        /\ \A g \in Facades :
             /\ facades'[g].life = "attached" => g \in Range(stateSubscribers')
             /\ (facades'[g].life = "attached" /\ notified' # notified)
                   => received'[g] = notified'
             /\ facades[g].life = "detached"
                   => facades'[g] = facades[g] /\ received'[g] = received[g]
      ]_vars

\* one facade has detached, and the other, still subscribed, received the RESET of a later
\* remote logout
C27_Witness ==
    /\ facades[1].life = "detached"
    /\ received[1] = NoEvent
    /\ stateSubscribers = <<2>>
    /\ lastCall = Hook("onAuthLogout")
    /\ facades[2].life = "attached"
    /\ received[2].type = "RESET"
    /\ notified.type = "RESET"

\* the moves of the shared phase the lifecycle allows; a retry after a failure resets the
\* state and starts the init in one call, so that failed is followed by initializing
LifecycleMoves ==
    {<<"idle", "initializing">>, <<"initializing", "initialized">>,
     <<"initializing", "failed">>, <<"initialized", "idle">>,
     <<"failed", "idle">>, <<"failed", "initializing">>}

\* C28: the shared phase only moves along the lifecycle, and it becomes initialized or
\* failed only as the outcome of the initialization that is pending
C28_PhaseLifecycle ==
    [][ initializationState' # initializationState
        => /\ <<initializationState, initializationState'>> \in LifecycleMoves
           /\ initializationState' \in {"initialized", "failed"}
                 => /\ keycloakInitPromise # 0
                    /\ kcInstances[keycloakInitPromise].status = "initializing"
                    /\ kcInstances'[keycloakInitPromise].status = initializationState'
      ]_vars

\* the scheduled refresh of facade f on client i resolves in this step with refreshed = true
ScheduledRefreshSucceeds(f, i) ==
    /\ <<f, i>> \in refreshInFlight
    /\ <<f, i>> \notin refreshInFlight'
    /\ kcInstances'[i].token # kcInstances[i].token

\* C29: when a scheduled refresh reports refreshed = true, token and refreshToken are updated
\* to the client's new values, TOKEN_UPDATED carrying them is delivered to every subscriber,
\* the permission map of every attached facade is the one computed from the refreshed
\* claims, and the next timer is armed
C29_RefreshRecomputesPermissions ==
    [][ \A f \in Facades, i \in Inst :
          (ScheduledRefreshSucceeds(f, i) /\ i = keycloakSingleton /\ Shows(f, i))
          => /\ notified'.type = "TOKEN_UPDATED"
             /\ notified'.token = kcInstances'[i].token
             /\ notified'.refreshToken = kcInstances'[i].refreshToken
             /\ \A g \in Range(stateSubscribers') : received'[g] = notified'
             /\ \A g \in Facades :
                   facades'[g].life = "attached"
                   => /\ facades'[g].token = kcInstances'[i].token
                      /\ facades'[g].refreshToken = kcInstances'[i].refreshToken
                      /\ facades'[g].permissions = mergedPermissions(kcInstances'[i])
             /\ <<f, i>> \in timers'
      ]_vars

\* the timers armed and the refresh attempts in flight
Loops == timers \cup refreshInFlight

\* C30: after a scheduled refresh is rejected the scheduler arms no timer and makes no
\* attempt on its own: the rejection leaves no timer and no attempt of that facade on that
\* client, and a timer or attempt that was not there before only ever appears in the
\* continuation of an initialization (the client's init resolving for an awaiting facade,
\* or the profile load that follows it settling), which happens once per client
C30_NoRetryAfterRejection ==
    [][ /\ \A f \in Facades, i \in Inst :
             ScheduledRefreshRejected(f, i)
             => /\ <<f, i>> \notin timers' \cup refreshInFlight'
                /\ facades'[f].updateTokenTimeoutRef # i
                /\ <<f, i>> \notin profilePending' \cup initAwaiters'
                /\ kcInstances'[i].status # "initializing"
        /\ \A p \in (timers' \cup refreshInFlight') \ Loops :
             \/ p \in profilePending /\ p \notin profilePending'
             \/ p \in initAwaiters /\ kcInstances[p[2]].status = "initializing"
        /\ \A p \in (profilePending' \cup initAwaiters') \ (profilePending \cup initAwaiters) :
             /\ kcInstances[p[2]].status \in {"unused", "initializing"}
             /\ p \notin Loops
      ]_vars

\* the refresh of a facade on the live client was rejected: the facade shows the message
\* and has neither a timer nor an attempt left
C30_Witness ==
    \E f \in Attached :
       /\ failures = 1
       /\ facades[f].error = SessionExpiredMsg
       /\ Shows(f, keycloakSingleton)
       /\ facades[f].updateTokenTimeoutRef = 0
       /\ \A p \in Loops : p[1] # f

\* the scheduled refresh of facade f on client i resolves in this step with refreshed = false
ScheduledRefreshNotNeeded(f, i) ==
    /\ <<f, i>> \in refreshInFlight
    /\ <<f, i>> \notin refreshInFlight'
    /\ failures' = failures
    /\ kcInstances'[i].token = kcInstances[i].token

DeliveryOrder(ds, e) ==
    LET sel == SelectSeq(ds, LAMBDA d : d[2] = e)
    IN  [k \in 1..Len(sel) |-> sel[k][1]]

\* the types of the events broadcast in this step
Broadcast(ds) == {ds[k][2] : k \in 1..Len(ds)}

\* C32: notifyStateChange delivers synchronously and in subscription order: in the step that
\* broadcasts an event, every subscriber is invoked with it, each once, the earlier
\* subscriber before the later one
C32_SynchronousInOrder ==
    [][ /\ notified' # notified
           => DeliveryOrder(deliveries', notified'.type) = stateSubscribers'
        /\ \A e \in Broadcast(deliveries') :
              DeliveryOrder(deliveries', e) = stateSubscribers'
      ]_vars

\* a token update has just been delivered to facade 2, which subscribed first, and then to
\* facade 1
C32_Witness ==
    /\ stateSubscribers = <<2, 1>>
    /\ deliveries = <<<<2, "TOKEN_UPDATED", 1>>, <<1, "TOKEN_UPDATED", 1>>>>
    /\ facades[1].token = facades[2].token
    /\ facades[1].token = notified.token

\* how often facade g was invoked by notification n of this step
Invocations(ds, g, n) == Cardinality({k \in 1..Len(ds) : ds[k][1] = g /\ ds[k][3] = n})

\* C33: adding or removing a subscription from inside a notification is safe: every
\* notification of the step runs to its end, and every facade that was subscribed when the
\* step began and is still subscribed after it has been invoked exactly once by each
\* notification; no facade is invoked twice by one notification
C33_ReentrantSubscriptionSafe ==
    [][ \A n \in {deliveries'[k][3] : k \in 1..Len(deliveries')}, g \in Facades :
          /\ Invocations(deliveries', g, n) <= 1
          /\ (g \in Range(stateSubscribers) /\ g \in Range(stateSubscribers'))
                => Invocations(deliveries', g, n) = 1
      ]_vars

\* facade 1, the first subscriber, unsubscribed itself while it handled the event, and
\* facade 2 was invoked after it
C33_Witness ==
    /\ reentrant = [by |-> 1, on |-> "INITIALIZED", op |-> "remove", target |-> 1]
    /\ stateSubscribers = <<2>>
    /\ Len(deliveries) = 2
    /\ deliveries[1][1] = 1
    /\ deliveries[2][1] = 2
    /\ received[2] = notified

\* the role names a token of the model can carry
RoleNames ==
    UNION {Range(r) : r \in RealmRoleInputs} \cup UNION {Range(c) : c \in ClientRoleInputs}

\* the role names the facade keeps an attributes entry for: the custom roles of the user
KeptRoles(f, i) == DOMAIN Resolved(f, i).facades[f].roleAttributes

\* C34: role classification: a name starting with default-roles- is non-custom, two-shoulder
\* is custom although the default-role list names it, offline_access and uma_authorization
\* are non-custom, every other name is custom; the roles a facade keeps attributes for are
\* the custom roles of the user
C34_RoleClassification ==
    \A f \in Facades, i \in Inst :
       (Shows(f, i) /\ WellFormedRoles(kcInstances[i]))
       => \A r \in Range(getUserRoles(kcInstances[i])) :
             /\ r \in RoleNames
             /\ (r \in KeptRoles(f, i)) = isCustomRole(r)
             /\ r \in {"default-roles-dreamn", "default-roles-"} => r \notin KeptRoles(f, i)
             /\ r = "two-shoulder" => r \in KeptRoles(f, i)
             /\ r \in {"offline_access", "uma_authorization"} => r \notin KeptRoles(f, i)
             /\ r \notin {"default-roles-dreamn", "default-roles-", "two-shoulder",
                          "offline_access", "uma_authorization"} => r \in KeptRoles(f, i)

\* a facade shows a user who holds two-shoulder and editor and keeps attributes for both; and
\* the classification of the bare prefix, of the prefix without its last dash and of the
\* empty name is the stated one
C34_Witness ==
    /\ \E f \in Facades, i \in Inst :
          /\ Shows(f, i)
          /\ kcInstances[i].tokenParsed.realmRoles = <<"two-shoulder", "editor">>
          /\ DOMAIN facades[f].roleAttributes = {"two-shoulder", "editor"}
    /\ ~isCustomRole("default-roles-")
    /\ isCustomRole("default-roles")
    /\ isCustomRole("")

\* C35: the shared client is published exactly when the phase is initialized
C35_ClientIffInitialized ==
    (keycloakSingleton # 0) <=> (initializationState = "initialized")

\* the roles arrays with the entries in the opposite order
Reversed(s) == [k \in 1..Len(s) |-> s[Len(s) + 1 - k]]

\* client object inst with other roles in its token
WithRoles(inst, realm, client) ==
    [inst EXCEPT !.tokenParsed.realmRoles = realm, !.tokenParsed.clientRoles = client]

\* the user of inst holds strings as roles and neither the super nor the privileged role
OrdinaryUser(inst) ==
    /\ WellFormedRoles(inst)
    /\ ~HoldsRole(inst, SUPER_ROLE)
    /\ ~HoldsRole(inst, "two-shoulder")

\* C36: for a caller without super and privileged role the permission map depends only on
\* role_attributes and on whether a custom role is held: without a custom role the map is
\* empty and every module is denied, whatever role_attributes says; with custom roles the
\* map is the same for every other choice, number and order of custom roles
C36_MapIndependentOfRoles ==
    \A f \in Facades, i \in Inst :
       (Shows(f, i) /\ OrdinaryUser(kcInstances[i]))
       => LET inst == kcInstances[i]
              perm == Resolved(f, i).facades[f].permissions
          IN  /\ ~HoldsCustomRole(inst)
                    => /\ perm = EmptyMap
                       /\ \A m \in ObservedModules : ~hasModulePermission(Resolved(f, i), f, m)
              /\ HoldsCustomRole(inst)
                    => \A r \in RealmRoleInputs, c \in ClientRoleInputs, back \in BOOLEAN :
                          LET other == WithRoles(inst, IF back THEN Reversed(r) ELSE r, c)
                          IN  (OrdinaryUser(other) /\ HoldsCustomRole(other))
                              => mergedPermissions(other) = perm

\* a facade holds the map resolved for a holder of editor, viewer and auditor with
\* role_attributes {admin: true, reports: false}; the map is the one of a user who holds
\* editor only, and a user with the same attributes and no custom role gets the empty map
C36_Witness ==
    \E f \in Facades, i \in Inst :
        /\ Shows(f, i)
        /\ kcInstances[i].tokenParsed.realmRoles = <<"editor", "viewer">>
        /\ kcInstances[i].tokenParsed.clientRoles = <<"auditor">>
        /\ facades[f].permissions = Resolved(f, i).facades[f].permissions
        /\ facades[f].permissions = ("admin" :> TRUE @@ "reports" :> FALSE)
        /\ mergedPermissions(WithRoles(kcInstances[i], <<"editor">>, <<>>)) = facades[f].permissions
        /\ mergedPermissions(WithRoles(kcInstances[i], <<"viewer", "editor">>, <<>>)) = facades[f].permissions
        /\ mergedPermissions(WithRoles(kcInstances[i], <<"uma_authorization">>, <<>>)) = EmptyMap

\* no token refresh is under way: neither a scheduled nor a manual updateToken is pending
NoRefreshInFlight ==
    /\ refreshInFlight = {}
    /\ \A c \in callsPending : c[1] # "updateToken"

\* C37: in an initialized, authenticated session with no refresh in flight, the token and
\* refreshToken state of every attached facade is the token pair of the shared client, and
\* the token state equals what the facade's getToken() returns
C37_TokenStateIsClientToken ==
    ( /\ initializationState = "initialized"
      /\ keycloakSingleton # 0
      /\ kcInstances[keycloakSingleton].authenticated
      /\ NoRefreshInFlight
      /\ ~RenderDue )
    => \A f \in Attached :
          Shows(f, keycloakSingleton)
          => /\ facades[f].token = kcInstances[keycloakSingleton].token
             /\ facades[f].refreshToken = kcInstances[keycloakSingleton].refreshToken
             /\ facades[f].token = getToken(World, f)

\* facade f is attached and reports loading
Loading(f) == facades[f].life = "attached" /\ facades[f].loading

\* C38: when the provider settles every init call, a facade that reports loading and stays
\* attached eventually reports loading = false; the step in which an init call settles leaves
\* every attached facade with loading = false, and with authenticated equal to the
\* provider's result on success or with error set on failure
C38_LoadingEnds ==
    /\ \A f \in Facades : Loading(f) ~> ~Loading(f)
    /\ [][ \A f \in Facades :
              (facades'[f].life = "attached" /\ notified' # notified)
              => /\ notified'.type = "INITIALIZED"
                       => /\ ~facades'[f].loading
                          /\ facades'[f].authenticated = notified'.authenticated
                 /\ notified'.type = "ERROR"
                       => /\ ~facades'[f].loading
                          /\ facades'[f].error # NoError
        ]_vars

\* facade 2 mounted while the init started by facade 1 was pending; the init has just
\* resolved, both were notified, and facade 2 reports loading = false and the result
C38_Witness ==
    /\ stateSubscribers = <<1, 2>>
    /\ deliveries = <<<<1, "INITIALIZED", 1>>, <<2, "INITIALIZED", 1>>>>
    /\ initializationState = "initialized"
    /\ ~facades[2].loading
    /\ facades[2].authenticated
    /\ facades[2].authenticated = kcInstances[keycloakSingleton].authenticated

====
